---------------------------- MODULE Spec2Model ----------------------------
(***************************************************************************)
(* Model of the matrix-multiply kernels of the Arm-Total-Performance       *)
(* tutorials: matmul_neon with pack_B_tile (tutorial_1/src/matmul_neon.cpp)*)
(* as a step machine, and matmul_naive / matmul_tiled as whole-call        *)
(* operators.                                                              *)
(*                                                                         *)
(* Floats are modelled by integers: main fills the matrices with           *)
(* (i % 97) * 0.01 and (i % 89) * 0.01; the model drops the 0.01 factor,   *)
(* so every product and sum is exact and "equal" means exactly equal.      *)
(* Rounding (FMA against multiply-then-add) is outside the model.          *)
(*                                                                         *)
(* TILE is a compile-time constant of each source file (64 in              *)
(* matmul_neon.cpp, 128 in the scalar matmul_tiled).  A 64 x 64 tile is    *)
(* out of reach of explicit-state checking, so the model keeps the         *)
(* micro-kernel width MR = 4 of the source and scales the tile down to     *)
(* MR * b, b in 1..MaxTileBlocks; the tile size is an input of the run.    *)
(*                                                                         *)
(* Undefined behaviour: a read outside a buffer returns an arbitrary       *)
(* value (drawn from Garbage when the value can reach the caller's         *)
(* buffers), a write outside a buffer lands in no modelled buffer; both    *)
(* are recorded in viol.                                                   *)
(***************************************************************************)
EXTENDS Integers, Sequences, FiniteSets, TLC

\* ------------------------------------------------------------- bounds
\* Largest matrix dimension tried for M, K and N.
MaxDim == 9
\* Largest dimension tried when a whole call is one step.
MaxCallDim == 6
\* Dimensions range from -MaxNeg up to MaxDim or MaxCallDim.
MaxNeg == 1
\* Tile sizes tried: MR * 1 .. MR * MaxTileBlocks.
MaxTileBlocks == 2
\* Input data sets: seed in 0 .. MaxSeed shifts main's deterministic fill.
MaxSeed == 0
\* Values an out-of-bounds read of B may return: 0 .. MaxGarbage.
MaxGarbage == 1
\* Width of int in the check of the index arithmetic (32 in the build),
\* scaled down so that the dimensions above reach past INT_MAX; size_t is
\* twice as wide.  The step machine computes over the integers: its
\* dimensions stand for ones far below the 32-bit range.
IntBits == 6
\* Largest number of particles and of update_positions iterations tried,
\* and largest time step.
MaxParticles == 3
MaxIters == 3
MaxDt == 2
\* Largest N of the square kernels, and their largest tile in 4-float blocks.
MaxSquare == 13
MaxSquareTileBlocks == 3
\* Floats of the softmax programs: significant bits kept of the 24 of a
\* float, and the unit of the smallest step, 2^-UnitBits.
MantissaBits == 4
UnitBits == 8
\* Largest N of the softmax programs; input values 0, 1/2, .., in steps of
\* 1/2, scale values 1, 5/4, .., in steps of 1/4.
MaxSoftmaxN == 3
MaxInputSteps == 2
MaxScaleSteps == 3
\* Addresses an allocator may return: multiples of the allocator's
\* alignment up to MaxAddrSlots times the alignment of malloc.
MaxAddrSlots == 12
\* Largest n of the programs that allocate aligned buffers, and the
\* largest number of kernel calls their main makes.
MaxAllocN == 2
MaxCalls == 1

\* ---------------------------------------------------------- constants
\* Lanes of a float32x4_t and rows/columns of the register block
\* (the loops step i += 4, j += 4; vld1q_f32 moves 4 floats).
MR == 4
\* Moduli of main's deterministic fill.
FillModA == 97
FillModB == 89
\* sizeof(float)
FloatBytes == 4

Dims == (0 - MaxNeg) .. MaxDim
CallDims == (0 - MaxNeg) .. MaxCallDim
TileSizes == {MR * b : b \in 1 .. MaxTileBlocks}
Seeds == 0 .. MaxSeed
Garbage == 0 .. MaxGarbage
Lanes == 0 .. (MR - 1)

Min(a, b) == IF a < b THEN a ELSE b

\* Number of floats of a caller buffer declared with rows * cols elements
\* (an empty buffer when the product is not positive).
BufLen(rows, cols) == IF rows * cols > 0 THEN rows * cols ELSE 0

\* main's fill of A and of B, shifted by the seed.
FillA(seed, n) == [x \in 0 .. (n - 1) |-> (x + seed) % FillModA]
FillB(seed, n) == [x \in 0 .. (n - 1) |-> (x + 2 * seed) % FillModB]
\* A buffer of n floats all holding v.
Filled(n, v) == [x \in 0 .. (n - 1) |-> v]

\* The value rest; comparing buf first makes TLC compute that buffer now,
\* so a loop does not carry a growing chain of unevaluated updates.
After(buf, rest) == IF buf = buf THEN rest ELSE rest

\* Number of floats a buffer holds.
BufLenOf(buf) == Cardinality(DOMAIN buf)

\* A read of buf[idx]: the stored value inside the buffer, g outside it.
Rd(buf, idx, g) == IF idx \in DOMAIN buf THEN buf[idx] ELSE g

VARIABLES
    M, K, N,        \* the dimensions passed to the call
    TILE,           \* the tile size the kernel was built with
    A, B,           \* input matrices, row-major, 0-based
    C,              \* output matrix
    Cprev,          \* the output of the previous call of the caller
    packed_B,       \* scratch buffer of TILE * TILE floats
    pc,             \* position in matmul_neon
    i0, j0, k0,     \* tile origins
    i, j, k,        \* micro-block origin and k counter
    bp, bp_k,       \* offsets into packed_B
    acc,            \* c0..c3, the 4x4 accumulator block
    packs,          \* pack_B_tile invocations so far
    tiles,          \* the tile triples entered so far, in order, with their bounds
    hist,           \* for each element of C: the products added into the value it holds
    acch,           \* the same for each lane of c0..c3
    packed_src,     \* for each float of packed_B: the index of B it was loaded from
    steps,          \* micro-kernel k iterations so far
    written,        \* indices of C written so far, inside the buffer or past it
    viol,           \* kinds of out-of-bounds access made so far
    idx_got,        \* an index or byte count as the build computes it
    idx_want,       \* the same expression over the integers
    n_particles,    \* N of the particle programs
    dt,             \* their time step
    aos,            \* aos_baseline: std::vector<ParticleAoS> particles
    soa,            \* soa_optimized: ParticlesSoA particles
    iter_aos,       \* update_positions calls made by aos_baseline
    iter_soa,       \* update_positions calls made by soa_optimized
    sm_n,           \* N of the softmax programs
    sm_alias,       \* which buffer the caller passes as output
    sm_mem,         \* for each softmax variant: its input, scale and output arrays
    sm_done,        \* the variants whose softmax_scale has returned
    alloc_n,        \* the number of floats main allocates per buffer
    heap,           \* the address each pointer of main holds (0: nullptr)
    live,           \* the buffers allocated and not freed
    frees,          \* for each pointer: the calls of free made on it while not null
    asserted,       \* the (pointer, address) pairs given to __builtin_assume_aligned
    stored,         \* the buffers main or a kernel has written
    calls,          \* kernel calls made by main
    reported,       \* the failure message has been written to std::cerr
    ret             \* the value main has returned (-1: still running)

vars == <<M, K, N, TILE, A, B, C, Cprev, packed_B, pc, i0, j0, k0, i, j, k,
          bp, bp_k, acc, packs, tiles, hist, acch, packed_src, steps, written, viol,
          idx_got, idx_want, n_particles, dt, aos, soa, iter_aos, iter_soa,
          sm_n, sm_alias, sm_mem, sm_done,
          alloc_n, heap, live, frees, asserted, stored, calls, reported, ret>>

inputs == <<M, K, N, TILE, A, B>>
\* What the model records about the run so far.
history == <<tiles, hist, acch, packed_src>>
\* Variables of the other programs and checks of this module.
indexing == <<idx_got, idx_want>>
particles == <<n_particles, dt, aos, soa, iter_aos, iter_soa>>
softmax == <<sm_n, sm_alias, sm_mem, sm_done>>
allocation == <<alloc_n, heap, live, frees, asserted, stored, calls, reported, ret>>
others == <<indexing, particles, softmax, allocation>>
\* What no step of matmul_neon changes.
frame == <<inputs, others, Cprev>>

\* ------------------------------------------------------- tile bounds
\* The locals of the k0 loop body (lines 56-59).
\* (mutant) the end of a tile is not clamped to the matrix dimension.
TileEnd_Unclamped(origin, t, dim) == origin + t
\* (mutant) the tile ends one index early.
TileEnd_Short(origin, t, dim) == Min(origin + t - 1, dim)
\* std::min(origin + TILE, dim)
TileEnd(origin, t, dim) == Min(origin + t, dim)
i_end == TileEnd(i0, TILE, M)
j_end == TileEnd(j0, TILE, N)
k_end == TileEnd(k0, TILE, K)
k_len == k_end - k0

\* ----------------------------------------------------------- memset
\* std::memset(C, 0, M * N * sizeof(float)): M * N is an int; converted to
\* size_t a negative product becomes a count beyond every buffer.  The
\* dimensions of the model are far from the 32-bit range, so the int
\* product itself does not wrap here.
\* Whether the zeroing runs past the end of the buffer.
MemsetBeyond(buf, m, n) == m * n < 0 \/ m * n > BufLenOf(buf)
\* Indices the zeroing writes (for a negative product: the whole buffer,
\* and MemsetBeyond tells that it goes on past it).
MemsetIdx(buf, m, n) ==
    IF m * n < 0 THEN DOMAIN buf ELSE 0 .. (m * n - 1)
\* (mutant) the entry memset is missing.
Memset_Missing(buf, m, n) == buf
Memset(buf, m, n) ==
    [x \in DOMAIN buf |-> IF x \in MemsetIdx(buf, m, n) THEN 0 ELSE buf[x]]

\* ------------------------------------------------------ pack_B_tile
\* vst1q_f32(dst, vld1q_f32(&B[k * N + j])): four floats of row kk of B
\* from column jj on, stored at dst .. dst + 3 of the scratch buffer.
\* (mutant) the vector is loaded from &B[j * N + k].
PackVec_Transposed(Bm, p, dst, kk, jj, n, g) ==
    [x \in DOMAIN p |->
        IF x \in dst .. (dst + MR - 1)
        THEN Rd(Bm, jj * n + kk + (x - dst), g)
        ELSE p[x]]
PackVec(Bm, p, dst, kk, jj, n, g) ==
    [x \in DOMAIN p |->
        IF x \in dst .. (dst + MR - 1)
        THEN Rd(Bm, kk * n + jj + (x - dst), g)
        ELSE p[x]]

\* The k loop of pack_B_tile for the micro-panel starting at column jj
\* (lines 40-43): one vector per row, dst += 4.  The buffer after one
\* iteration is bound by a set constructor, which makes TLC compute it
\* once before the next iteration uses it.
RECURSIVE PackK(_, _, _, _, _, _, _, _)
PackK(Bm, p, dst, kk, kend, jj, n, g) ==
    IF kk < kend
    THEN CHOOSE res \in {PackK(Bm, p2, dst + MR, kk + 1, kend, jj, n, g) :
                            p2 \in {PackVec(Bm, p, dst, kk, jj, n, g)}} : TRUE
    ELSE [packed |-> p, dst |-> dst]

\* The j loop of pack_B_tile (j += 4).
RECURSIVE PackJ(_, _, _, _, _, _, _, _, _)
PackJ(Bm, p, dst, kstart, kend, jj, jend, n, g) ==
    IF jj < jend
    THEN CHOOSE res \in
             {PackJ(Bm, r.packed, r.dst, kstart, kend, jj + MR, jend, n, g) :
                 r \in {PackK(Bm, p, dst, kstart, kend, jj, n, g)}} : TRUE
    ELSE [packed |-> p, dst |-> dst]

\* pack_B_tile(B, packed, k0, k_end, j0, j_end, N); g is what a read past
\* the end of B returns.
pack_B_tile(Bm, p, kstart, kend, jstart, jend, n, g) ==
    PackJ(Bm, p, 0, kstart, kend, jstart, jend, n, g).packed

\* Columns at which a loop "for (j = lo; j < hi; j += 4)" runs its body.
BlockStarts(lo, hi) == {x \in lo .. (hi - 1) : (x - lo) % MR = 0}

\* Indices of B that pack_B_tile loads.
PackReads(kstart, kend, jstart, jend, n) ==
    {kk * n + jj + l : kk \in kstart .. (kend - 1),
                       jj \in BlockStarts(jstart, jend), l \in Lanes}
\* Offsets of the scratch buffer that pack_B_tile stores to.
PackWrites(kstart, kend, jstart, jend) ==
    0 .. (Cardinality(BlockStarts(jstart, jend)) * (kend - kstart) * MR - 1)

\* ----------------------------------------------------- micro-kernel
\* Indices of C covered by the four vectors of micro-block (ii, jj).
BlockIdx(ii, jj, n) == {(ii + r) * n + jj + l : r \in Lanes, l \in Lanes}
\* Lines 69-72: c0..c3 = vld1q_f32(&C[(i + r) * N + j]).  A lane loaded
\* from outside C is stored back outside C (lines 87-90 use the same
\* index), so its value is not tracked: it is held as 0.
LoadBlock(Cm, ii, jj, n) ==
    [r \in Lanes |-> [l \in Lanes |-> Rd(Cm, (ii + r) * n + jj + l, 0)]]
\* Lines 77-83: b = vld1q_f32(bp_k); c_r = vfmaq_n_f32(c_r, b, A[(i+r)*K+k]).
\* A row of A read from outside A belongs to a row of C outside C, so
\* that value is not tracked either.
FmaStep(accm, p, off, Am, ii, kk, kdim) ==
    [r \in Lanes |-> [l \in Lanes |->
            accm[r][l] + Rd(p, off + l, 0) * Rd(Am, (ii + r) * kdim + kk, 0)]]
\* Indices of A read by one k step of micro-block row ii.
FmaReadsA(ii, kk, kdim) == {(ii + r) * kdim + kk : r \in Lanes}
\* Lines 87-90: vst1q_f32(&C[(i + r) * N + j], c_r), r = 0, 1, 2, 3 in
\* this order (a later row overwrites what an earlier one spilled).
StoreRow(Cm, accm, r, ii, jj, n) ==
    [x \in DOMAIN Cm |->
        IF x \in ((ii + r) * n + jj) .. ((ii + r) * n + jj + MR - 1)
        THEN accm[r][x - ((ii + r) * n + jj)]
        ELSE Cm[x]]
RECURSIVE StoreRows(_, _, _, _, _, _)
StoreRows(Cm, accm, r, ii, jj, n) ==
    IF r < MR
    THEN CHOOSE res \in {StoreRows(c2, accm, r + 1, ii, jj, n) :
                            c2 \in {StoreRow(Cm, accm, r, ii, jj, n)}} : TRUE
    ELSE Cm
StoreBlock(Cm, accm, ii, jj, n) == StoreRows(Cm, accm, 0, ii, jj, n)

Tag(cond, t) == IF cond THEN {t} ELSE {}

\* ------------------------------------------- history of the products
\* A product is recorded as <<index of A, index of B>>; Outside stands
\* for an index outside the buffer, Unknown for what a float held before
\* the call.
Outside == 0 - 1
Unknown == <<Outside, Outside>>
\* B with every float replaced by its own index: packing it shows where
\* each float of the scratch buffer came from.
IndexOf(buf) == [x \in DOMAIN buf |-> x]
\* Lines 69-72 on the histories: the lanes of c0..c3 take over what the
\* loaded elements of C hold.
LoadHist(h, ii, jj, n) ==
    [r \in Lanes |-> [l \in Lanes |->
        IF (ii + r) * n + jj + l \in DOMAIN h
        THEN h[(ii + r) * n + jj + l] ELSE <<Unknown>>]]
\* Lines 77-83 on the histories: lane l of c_r receives the product of
\* A[(i + r) * K + k] and the float at bp_k + l of the scratch buffer.
FmaHist(ah, src, off, Am, ii, kk, kdim) ==
    [r \in Lanes |-> [l \in Lanes |->
        Append(ah[r][l],
               <<IF (ii + r) * kdim + kk \in DOMAIN Am
                 THEN (ii + r) * kdim + kk ELSE Outside,
                 Rd(src, off + l, Outside)>>)]]

\* ------------------------------------------------------------- Init
\* What an output buffer holds before a call that follows earlier work.
Stale(n) == [x \in 0 .. (n - 1) |-> (x % 5) + 1]

\* The caller's buffers hold M*K, K*N and M*N floats (main, lines 108-115).
InitInputs(D) ==
    /\ M \in D /\ K \in D /\ N \in D
    /\ TILE \in TileSizes
    /\ \E seed \in Seeds :
          /\ A = FillA(seed, BufLen(M, K))
          /\ B = FillB(seed, BufLen(K, N))

\* The state in which the program stands at position p before a call:
\* what holds besides the inputs.
InitRest(p) ==
    /\ C = Stale(BufLen(M, N))
    /\ Cprev = Filled(0, 0)
    /\ packed_B = Filled(0, 0)
    /\ pc = p
    /\ i0 = 0 /\ j0 = 0 /\ k0 = 0
    /\ i = 0 /\ j = 0 /\ k = 0
    /\ bp = 0 /\ bp_k = 0
    /\ acc = [r \in Lanes |-> [l \in Lanes |-> 0]]
    /\ packs = 0 /\ steps = 0
    /\ tiles = << >>
    /\ hist = [x \in DOMAIN C |-> <<Unknown>>]
    /\ acch = [r \in Lanes |-> [l \in Lanes |-> << >>]]
    /\ packed_src = Filled(0, 0)
    /\ written = {}
    /\ viol = {}
InitAt(p, D) == InitInputs(D) /\ InitRest(p)

\* Nothing has been computed by the index expressions.
IndexIdle == idx_got = 0 /\ idx_want = 0
\* The particle programs are not running.
ParticlesIdle ==
    /\ n_particles = 0 /\ dt = 0
    /\ aos = << >> /\ soa = << >>
    /\ iter_aos = 0 /\ iter_soa = 0

\* The softmax programs are not running.
SoftmaxIdle ==
    /\ sm_n = 0 /\ sm_alias = "none"
    /\ sm_mem = << >> /\ sm_done = {}
\* The programs that allocate aligned buffers are not running.
AllocationIdle ==
    /\ alloc_n = 0
    /\ heap = << >> /\ live = {} /\ frees = << >>
    /\ asserted = {} /\ stored = {}
    /\ calls = 0 /\ reported = FALSE /\ ret = 0 - 1
\* None of the other programs is running.
OthersIdle == IndexIdle /\ ParticlesIdle /\ SoftmaxIdle /\ AllocationIdle

\* matmul_neon has been entered.
Init == InitAt("entry", Dims) /\ OthersIdle

\* ---------------------------------------------------------- actions
\* Lines 48-53: the entry memset, the scratch vector, i0 = 0.
Entry ==
    /\ pc = "entry"
    /\ C' = Memset(C, M, N)
    /\ written' = written \cup MemsetIdx(C, M, N)
    /\ viol' = viol \cup Tag(MemsetBeyond(C, M, N), "wrC")
    /\ packed_B' = Filled(TILE * TILE, 0)
    /\ hist' = [x \in DOMAIN hist |->
                   IF x \in MemsetIdx(C, M, N) THEN << >> ELSE hist[x]]
    /\ packed_src' = Filled(TILE * TILE, Outside)
    /\ i0' = 0
    /\ pc' = "i0"
    /\ UNCHANGED <<frame, tiles, acch, j0, k0, i, j, k, bp, bp_k, acc, packs,
                   steps>>

\* Line 53: for (i0 = 0; i0 < M; i0 += TILE).
I0Enter ==
    /\ pc = "i0" /\ i0 < M
    /\ j0' = 0
    /\ pc' = "j0"
    /\ UNCHANGED <<frame, history, C, packed_B, i0, k0, i, j, k, bp, bp_k, acc,
                   packs, steps, written, viol>>

\* (mutant) the i0 loop does not end: past M the counter keeps moving and
\* falls back.
I0Exit_Spin ==
    /\ pc = "i0" /\ ~(i0 < M)
    /\ i0' = IF i0 < M + 2 * TILE THEN i0 + TILE ELSE M
    /\ UNCHANGED <<frame, history, C, packed_B, pc, j0, k0, i, j, k, bp, bp_k,
                   acc, packs, steps, written, viol>>

\* Line 53 false, line 97: the call returns.
I0Exit ==
    /\ pc = "i0" /\ ~(i0 < M)
    /\ pc' = "done"
    /\ UNCHANGED <<frame, history, C, packed_B, i0, j0, k0, i, j, k, bp, bp_k,
                   acc, packs, steps, written, viol>>

\* Line 54: for (j0 = 0; j0 < N; j0 += TILE).
J0Enter ==
    /\ pc = "j0" /\ j0 < N
    /\ k0' = 0
    /\ pc' = "k0"
    /\ UNCHANGED <<frame, history, C, packed_B, i0, j0, i, j, k, bp, bp_k, acc,
                   packs, steps, written, viol>>

J0Exit ==
    /\ pc = "j0" /\ ~(j0 < N)
    /\ i0' = i0 + TILE
    /\ pc' = "i0"
    /\ UNCHANGED <<frame, history, C, packed_B, j0, k0, i, j, k, bp, bp_k, acc,
                   packs, steps, written, viol>>

\* (mutant) the panel is packed for the first k-tile of a (i0, j0) tile
\* only and reused for the following k-tiles.
Pack_Stale ==
    /\ pc = "k0" /\ k0 < K
    /\ \E g \in Garbage :
          packed_B' = IF k0 = 0
                      THEN pack_B_tile(B, packed_B, k0, k_end, j0, j_end, N, g)
                      ELSE packed_B
    /\ viol' = viol
    /\ packed_src' = IF k0 = 0
                     THEN pack_B_tile(IndexOf(B), packed_src, k0, k_end, j0, j_end,
                                      N, Outside)
                     ELSE packed_src
    /\ packs' = IF k0 = 0 THEN packs + 1 ELSE packs
    /\ tiles' = Append(tiles, [i0 |-> i0, j0 |-> j0, k0 |-> k0,
                               i_end |-> i_end, j_end |-> j_end, k_end |-> k_end])
    /\ i' = i0
    /\ pc' = "i"
    /\ UNCHANGED <<frame, hist, acch, C, i0, j0, k0, j, k, bp, bp_k, acc,
                   steps, written>>

\* Lines 55-65: the k0 loop is entered, the B tile is packed, i = i0.
Pack ==
    /\ pc = "k0" /\ k0 < K
    /\ \E g \in Garbage :
          packed_B' = pack_B_tile(B, packed_B, k0, k_end, j0, j_end, N, g)
    /\ viol' = viol
          \cup Tag(~(PackReads(k0, k_end, j0, j_end, N) \subseteq DOMAIN B), "rdB")
          \cup Tag(~(PackWrites(k0, k_end, j0, j_end) \subseteq DOMAIN packed_B), "wrP")
    /\ packed_src' = pack_B_tile(IndexOf(B), packed_src, k0, k_end, j0, j_end, N,
                                 Outside)
    /\ packs' = packs + 1
    /\ tiles' = Append(tiles, [i0 |-> i0, j0 |-> j0, k0 |-> k0,
                               i_end |-> i_end, j_end |-> j_end, k_end |-> k_end])
    /\ i' = i0
    /\ pc' = "i"
    /\ UNCHANGED <<frame, hist, acch, C, i0, j0, k0, j, k, bp, bp_k, acc,
                   steps, written>>

K0Exit ==
    /\ pc = "k0" /\ ~(k0 < K)
    /\ j0' = j0 + TILE
    /\ pc' = "j0"
    /\ UNCHANGED <<frame, history, C, packed_B, i0, k0, i, j, k, bp, bp_k, acc,
                   packs, steps, written, viol>>

\* Lines 65-67: for (i = i0; i < i_end; i += 4) { bp = packed_B.data(); j = j0.
IEnter ==
    /\ pc = "i" /\ i < i_end
    /\ bp' = 0
    /\ j' = j0
    /\ pc' = "j"
    /\ UNCHANGED <<frame, history, C, packed_B, i0, j0, k0, i, k, bp_k, acc,
                   packs, steps, written, viol>>

\* (mutant) the j0 and k0 loops are interchanged: after a tile the next
\* j-tile of the same k0 follows, and k0 advances after the last j-tile.
IExit_KOuter ==
    /\ pc = "i" /\ ~(i < i_end)
    /\ IF j0 + TILE < N
       THEN j0' = j0 + TILE /\ k0' = k0
       ELSE j0' = 0 /\ k0' = k0 + TILE
    /\ pc' = "k0"
    /\ UNCHANGED <<frame, history, C, packed_B, i0, i, j, k, bp, bp_k, acc,
                   packs, steps, written, viol>>

IExit ==
    /\ pc = "i" /\ ~(i < i_end)
    /\ k0' = k0 + TILE
    /\ pc' = "k0"
    /\ UNCHANGED <<frame, history, C, packed_B, i0, j0, i, j, k, bp, bp_k, acc,
                   packs, steps, written, viol>>

\* (mutant) c0..c3 start from zero instead of from the current C block.
Load_FromZero ==
    /\ pc = "j" /\ j < j_end
    /\ acc' = [r \in Lanes |-> [l \in Lanes |-> 0]]
    /\ acch' = [r \in Lanes |-> [l \in Lanes |-> << >>]]
    /\ bp_k' = bp
    /\ k' = k0
    /\ pc' = "k"
    /\ UNCHANGED <<frame, tiles, hist, packed_src, C, packed_B, i0, j0, k0,
                   i, j, bp, packs, steps, written, viol>>

\* Lines 67-75: the micro-block is entered, c0..c3 are loaded, bp_k = bp, k = k0.
Load ==
    /\ pc = "j" /\ j < j_end
    /\ acc' = LoadBlock(C, i, j, N)
    /\ acch' = LoadHist(hist, i, j, N)
    /\ viol' = viol \cup Tag(~(BlockIdx(i, j, N) \subseteq DOMAIN C), "rdC")
    /\ bp_k' = bp
    /\ k' = k0
    /\ pc' = "k"
    /\ UNCHANGED <<frame, tiles, hist, packed_src, C, packed_B, i0, j0, k0,
                   i, j, bp, packs, steps, written>>

JExit ==
    /\ pc = "j" /\ ~(j < j_end)
    /\ i' = i + MR
    /\ pc' = "i"
    /\ UNCHANGED <<frame, history, C, packed_B, i0, j0, k0, j, k, bp, bp_k, acc,
                   packs, steps, written, viol>>

\* (mutant) the accumulators are written back to C in every k iteration.
Fma_StoreEach ==
    /\ pc = "k" /\ k < k_end
    /\ acc' = FmaStep(acc, packed_B, bp_k, A, i, k, K)
    /\ acch' = FmaHist(acch, packed_src, bp_k, A, i, k, K)
    /\ C' = StoreBlock(C, acc', i, j, N)
    /\ hist' = StoreBlock(hist, acch', i, j, N)
    /\ written' = written \cup BlockIdx(i, j, N)
    /\ viol' = viol
          \cup Tag(~(FmaReadsA(i, k, K) \subseteq DOMAIN A), "rdA")
          \cup Tag(~((bp_k .. (bp_k + MR - 1)) \subseteq DOMAIN packed_B), "rdP")
          \cup Tag(~(BlockIdx(i, j, N) \subseteq DOMAIN C), "wrC")
    /\ bp_k' = bp_k + MR
    /\ k' = k + 1
    /\ steps' = steps + 1
    /\ UNCHANGED <<frame, tiles, packed_src, packed_B, pc, i0, j0,
                   k0, i, j, bp, packs>>

\* Lines 75-84: one iteration of the k loop.
Fma ==
    /\ pc = "k" /\ k < k_end
    /\ acc' = FmaStep(acc, packed_B, bp_k, A, i, k, K)
    /\ acch' = FmaHist(acch, packed_src, bp_k, A, i, k, K)
    /\ viol' = viol
          \cup Tag(~(FmaReadsA(i, k, K) \subseteq DOMAIN A), "rdA")
          \cup Tag(~((bp_k .. (bp_k + MR - 1)) \subseteq DOMAIN packed_B), "rdP")
    /\ bp_k' = bp_k + MR
    /\ k' = k + 1
    /\ steps' = steps + 1
    /\ UNCHANGED <<frame, tiles, hist, packed_src, C, packed_B, pc, i0, j0,
                   k0, i, j, bp, packs, written>>

\* (mutant) bp advances by a full tile's micro-panel: bp += TILE * 4.
Store_FullStride ==
    /\ pc = "k" /\ ~(k < k_end)
    /\ C' = StoreBlock(C, acc, i, j, N)
    /\ hist' = StoreBlock(hist, acch, i, j, N)
    /\ written' = written \cup BlockIdx(i, j, N)
    /\ viol' = viol \cup Tag(~(BlockIdx(i, j, N) \subseteq DOMAIN C), "wrC")
    /\ bp' = bp + TILE * MR
    /\ j' = j + MR
    /\ pc' = "j"
    /\ UNCHANGED <<frame, tiles, acch, packed_src, packed_B, i0, j0, k0, i,
                   k, bp_k, acc, packs, steps>>

\* Lines 86-92: the k loop is over, c0..c3 are stored, bp advances, j += 4.
Store ==
    /\ pc = "k" /\ ~(k < k_end)
    /\ C' = StoreBlock(C, acc, i, j, N)
    /\ hist' = StoreBlock(hist, acch, i, j, N)
    /\ written' = written \cup BlockIdx(i, j, N)
    /\ viol' = viol \cup Tag(~(BlockIdx(i, j, N) \subseteq DOMAIN C), "wrC")
    /\ bp' = bp + k_len * MR
    /\ j' = j + MR
    /\ pc' = "j"
    /\ UNCHANGED <<frame, tiles, acch, packed_src, packed_B, i0, j0, k0, i,
                   k, bp_k, acc, packs, steps>>

Next ==
    \/ Entry
    \/ I0Enter \/ I0Exit
    \/ J0Enter \/ J0Exit
    \/ Pack \/ K0Exit
    \/ IEnter \/ IExit
    \/ Load \/ JExit
    \/ Fma \/ Store

Spec == Init /\ [][Next]_vars

\* matmul_neon is straight-line sequential code run by one thread: as
\* long as a next statement exists it is executed.
SpecLive == Init /\ [][Next]_vars /\ WF_vars(Next)

\* ------------------------------------------------------ matmul_naive
\* The k loop of matmul_naive: sum += A[i * K + k] * B[k * N + j].
RECURSIVE NaiveSum(_, _, _, _, _, _, _, _)
NaiveSum(Am, Bm, ii, jj, kk, kdim, n, sum) ==
    IF kk < kdim
    THEN NaiveSum(Am, Bm, ii, jj, kk + 1, kdim, n,
                  sum + Am[ii * kdim + kk] * Bm[kk * n + jj])
    ELSE sum

\* matmul_naive(A, B, C, M, K, N): C[i * N + j] = sum for i < M, j < N;
\* every other element of C keeps its value.
matmul_naive(Am, Bm, Cm, m, kdim, n) ==
    [x \in DOMAIN Cm |->
        IF m > 0 /\ n > 0 /\ x < m * n
        THEN NaiveSum(Am, Bm, x \div n, x % n, 0, kdim, n, 0)
        ELSE Cm[x]]

\* ------------------------------------------------------ matmul_tiled
\* The scalar 2D-tiled kernel (TILE = 128 in the source; t here).
\* Lines 38-40: for (j = j0; j < j_end; ++j) C[i*N+j] += a_ik * B[k*N+j].
TiledRow(Am, Bm, Cm, ii, kk, jstart, jend, kdim, n) ==
    [x \in DOMAIN Cm |->
            IF x \in (ii * n + jstart) .. (ii * n + jend - 1)
            THEN Cm[x] + Rd(Am, ii * kdim + kk, 0) * Rd(Bm, kk * n + (x - ii * n), 0)
            ELSE Cm[x]]
\* Lines 36-41: for (k = k0; k < k_end; ++k).
RECURSIVE TiledK(_, _, _, _, _, _, _, _, _, _)
TiledK(Am, Bm, Cm, ii, kk, kend, jstart, jend, kdim, n) ==
    IF kk < kend
    THEN LET c2 == TiledRow(Am, Bm, Cm, ii, kk, jstart, jend, kdim, n)
         IN  After(c2, TiledK(Am, Bm, c2, ii, kk + 1, kend, jstart, jend, kdim, n))
    ELSE Cm
\* Lines 35-42: for (i = i0; i < i_end; ++i).
RECURSIVE TiledI(_, _, _, _, _, _, _, _, _, _, _)
TiledI(Am, Bm, Cm, ii, iend, kstart, kend, jstart, jend, kdim, n) ==
    IF ii < iend
    THEN LET c2 == TiledK(Am, Bm, Cm, ii, kstart, kend, jstart, jend, kdim, n)
         IN  After(c2, TiledI(Am, Bm, c2, ii + 1, iend, kstart, kend,
                              jstart, jend, kdim, n))
    ELSE Cm
\* Lines 32-43: for (k0 = 0; k0 < K; k0 += TILE).
RECURSIVE TiledK0(_, _, _, _, _, _, _, _, _, _)
TiledK0(Am, Bm, Cm, io, jo, ko, m, kdim, n, t) ==
    IF ko < kdim
    THEN LET c2 == TiledI(Am, Bm, Cm, io, TileEnd(io, t, m),
                          ko, TileEnd(ko, t, kdim), jo, TileEnd(jo, t, n), kdim, n)
         IN  After(c2, TiledK0(Am, Bm, c2, io, jo, ko + t, m, kdim, n, t))
    ELSE Cm
\* Lines 29-44: for (j0 = 0; j0 < N; j0 += TILE).
RECURSIVE TiledJ0(_, _, _, _, _, _, _, _, _)
TiledJ0(Am, Bm, Cm, io, jo, m, kdim, n, t) ==
    IF jo < n
    THEN LET c2 == TiledK0(Am, Bm, Cm, io, jo, 0, m, kdim, n, t)
         IN  After(c2, TiledJ0(Am, Bm, c2, io, jo + t, m, kdim, n, t))
    ELSE Cm
\* Lines 28-45: for (i0 = 0; i0 < M; i0 += TILE).
RECURSIVE TiledI0(_, _, _, _, _, _, _, _)
TiledI0(Am, Bm, Cm, io, m, kdim, n, t) ==
    IF io < m
    THEN LET c2 == TiledJ0(Am, Bm, Cm, io, 0, m, kdim, n, t)
         IN  After(c2, TiledI0(Am, Bm, c2, io + t, m, kdim, n, t))
    ELSE Cm
\* matmul_tiled(A, B, C, M, K, N), built with TILE = t.
matmul_tiled(Am, Bm, Cm, m, kdim, n, t) ==
    TiledI0(Am, Bm, Memset(Cm, m, n), 0, m, kdim, n, t)

\* ------------------------------------------- matmul_neon, whole call
\* The loops of matmul_neon composed from the same steps as the actions
\* above; g is what every read past the end of B returns in this call.
\* Lines 75-84: the k loop of one micro-block.
RECURSIVE NeonK(_, _, _, _, _, _, _, _)
NeonK(accm, p, off, Am, ii, kk, kend, kdim) ==
    IF kk < kend
    THEN LET a2 == FmaStep(accm, p, off, Am, ii, kk, kdim)
         IN  After(a2, NeonK(a2, p, off + MR, Am, ii, kk + 1, kend, kdim))
    ELSE accm
\* Lines 67-92: one micro-block: load, k loop, store.
MicroBlock(Cm, p, off, Am, ii, jj, kstart, kend, kdim, n) ==
    StoreBlock(Cm,
               NeonK(LoadBlock(Cm, ii, jj, n), p, off, Am, ii, kstart, kend, kdim),
               ii, jj, n)
\* Lines 67-92: for (j = j0; j < j_end; j += 4), bp += k_len * 4.
RECURSIVE NeonJ(_, _, _, _, _, _, _, _, _, _, _)
NeonJ(Cm, p, off, Am, ii, jj, jend, kstart, kend, kdim, n) ==
    IF jj < jend
    THEN LET c2 == MicroBlock(Cm, p, off, Am, ii, jj, kstart, kend, kdim, n)
         IN  After(c2, NeonJ(c2, p, off + (kend - kstart) * MR, Am, ii, jj + MR,
                             jend, kstart, kend, kdim, n))
    ELSE Cm
\* Lines 65-93: for (i = i0; i < i_end; i += 4).
RECURSIVE NeonI(_, _, _, _, _, _, _, _, _, _, _)
NeonI(Cm, p, Am, ii, iend, jstart, jend, kstart, kend, kdim, n) ==
    IF ii < iend
    THEN LET c2 == NeonJ(Cm, p, 0, Am, ii, jstart, jend, kstart, kend, kdim, n)
         IN  After(c2, NeonI(c2, p, Am, ii + MR, iend, jstart, jend,
                             kstart, kend, kdim, n))
    ELSE Cm
\* Lines 55-94: for (k0 = 0; k0 < K; k0 += TILE): pack, then the tile.
RECURSIVE NeonK0(_, _, _, _, _, _, _, _, _, _, _, _)
NeonK0(Am, Bm, Cm, p, io, jo, ko, m, kdim, n, t, g) ==
    IF ko < kdim
    THEN LET p2 == pack_B_tile(Bm, p, ko, TileEnd(ko, t, kdim),
                               jo, TileEnd(jo, t, n), n, g)
             c2 == NeonI(Cm, p2, Am, io, TileEnd(io, t, m), jo, TileEnd(jo, t, n),
                         ko, TileEnd(ko, t, kdim), kdim, n)
         IN  After(c2, NeonK0(Am, Bm, c2, p2, io, jo, ko + t, m, kdim, n, t, g))
    ELSE [C |-> Cm, packed |-> p]
\* Lines 54-95: for (j0 = 0; j0 < N; j0 += TILE).
RECURSIVE NeonJ0(_, _, _, _, _, _, _, _, _, _, _)
NeonJ0(Am, Bm, Cm, p, io, jo, m, kdim, n, t, g) ==
    IF jo < n
    THEN LET r == NeonK0(Am, Bm, Cm, p, io, jo, 0, m, kdim, n, t, g)
         IN  After(r, NeonJ0(Am, Bm, r.C, r.packed, io, jo + t, m, kdim, n, t, g))
    ELSE [C |-> Cm, packed |-> p]
\* Lines 53-96: for (i0 = 0; i0 < M; i0 += TILE).
RECURSIVE NeonI0(_, _, _, _, _, _, _, _, _, _)
NeonI0(Am, Bm, Cm, p, io, m, kdim, n, t, g) ==
    IF io < m
    THEN LET r == NeonJ0(Am, Bm, Cm, p, io, 0, m, kdim, n, t, g)
         IN  After(r, NeonI0(Am, Bm, r.C, r.packed, io + t, m, kdim, n, t, g))
    ELSE [C |-> Cm, packed |-> p]
\* matmul_neon(A, B, C, M, K, N), built with TILE = t.
matmul_neon(Am, Bm, Cm, m, kdim, n, t, g) ==
    NeonI0(Am, Bm, Memset(Cm, m, n), Filled(t * t, 0), 0, m, kdim, n, t, g).C

\* --------------------------------------------------------- the callers
\* main of each program calls its kernel on the buffers it has filled;
\* each action below is one whole call.
\* What a call of matmul_neon leaves behind besides C.
machine == <<packed_B, i0, j0, k0, i, j, k, bp, bp_k, acc, packs, tiles, hist, acch,
             packed_src, steps,
             written, viol>>
\* The same without the histories of C.
machine_rest == <<packed_B, i0, j0, k0, i, j, k, bp, bp_k, acc, packs, tiles, acch,
                  packed_src, steps, written, viol>>

\* matmul_naive.cpp, main: matmul_naive(A, B, C, M, K, N).
CallNaive ==
    /\ pc = "main"
    /\ C' = matmul_naive(A, B, C, M, K, N)
    /\ pc' = "naive"
    /\ UNCHANGED <<inputs, Cprev, machine, others>>

\* matmul_tiled.cpp, main: matmul_tiled(A, B, C, M, K, N).
CallTiled ==
    /\ pc = "main"
    /\ C' = matmul_tiled(A, B, C, M, K, N, TILE)
    /\ pc' = "tiled"
    /\ UNCHANGED <<inputs, Cprev, machine, others>>

\* matmul_neon.cpp, main: matmul_neon(A, B, C, M, K, N).
CallNeon ==
    /\ pc = "main"
    /\ \E g \in Garbage : C' = matmul_neon(A, B, C, M, K, N, TILE, g)
    /\ pc' = "neon"
    /\ UNCHANGED <<inputs, Cprev, machine, others>>

\* A second call on the same A, B, M, K, N (the do-while timing loop of
\* the tutorial's harnesses); the first output is kept in Cprev.
CallNeonAgain ==
    /\ pc = "neon"
    /\ Cprev' = C
    /\ \E g \in Garbage : C' = matmul_neon(A, B, C, M, K, N, TILE, g)
    /\ pc' = "neon_again"
    /\ UNCHANGED <<inputs, machine, others>>

\* The same inputs given to the kernel built with another tile size.
CallNeonRetiled ==
    /\ pc = "neon"
    /\ Cprev' = C
    /\ \E t \in TileSizes \ {TILE}, g \in Garbage :
          /\ TILE' = t
          /\ C' = matmul_neon(A, B, C, M, K, N, t, g)
    /\ pc' = "neon_retiled"
    /\ UNCHANGED <<M, K, N, A, B, machine, others>>

CallTiledRetiled ==
    /\ pc = "tiled"
    /\ Cprev' = C
    /\ \E t \in TileSizes \ {TILE} :
          /\ TILE' = t
          /\ C' = matmul_tiled(A, B, C, M, K, N, t)
    /\ pc' = "tiled_retiled"
    /\ UNCHANGED <<M, K, N, A, B, machine, others>>

\* The same call made on a freshly constructed output vector (all zeros,
\* main line 110) instead of the stale one; the first output is kept in
\* Cprev.
CallNeonFresh ==
    /\ pc = "neon"
    /\ Cprev' = C
    /\ \E g \in Garbage :
          C' = matmul_neon(A, B, Filled(BufLen(M, N), 0), M, K, N, TILE, g)
    /\ pc' = "neon_fresh"
    /\ UNCHANGED <<inputs, machine, others>>

\* Origins of the tiles of a dimension: 0, TILE, 2 * TILE, ... below dim.
TileOrigins(dim) == {x \in 0 .. (dim - 1) : x % TILE = 0}

\* pack_B_tile(B, packed_B.data(), k0, k_end, j0, j_end, N) on a fresh
\* scratch vector, for one of the tiles matmul_neon packs.
CallPack ==
    /\ pc = "main"
    /\ \E jo \in TileOrigins(N), ko \in TileOrigins(K), g \in Garbage :
          /\ j0' = jo
          /\ k0' = ko
          /\ packed_B' = pack_B_tile(B, Filled(TILE * TILE, 0), ko, TileEnd(ko, TILE, K),
                                     jo, TileEnd(jo, TILE, N), N, g)
    /\ pc' = "pack"
    /\ UNCHANGED <<inputs, others, Cprev, C, history, i0, i, j, k, bp, bp_k, acc,
                   packs, steps, written, viol>>

\* The same pack again, on the scratch buffer as the first pack left it or
\* on one that holds other values; the first panel is kept in Cprev.
CallPackAgain ==
    /\ pc = "pack"
    /\ Cprev' = packed_B
    /\ \E before \in {packed_B, Stale(TILE * TILE)}, g \in Garbage :
          packed_B' = pack_B_tile(B, before, k0, k_end, j0, j_end, N, g)
    /\ pc' = "pack_again"
    /\ UNCHANGED <<inputs, others, C, history, i0, j0, k0, i, j, k, bp, bp_k, acc,
                   packs, steps, written, viol>>

InitCall == InitAt("main", CallDims) /\ OthersIdle

NextCall ==
    \/ CallNaive
    \/ CallTiled
    \/ CallNeon
    \/ CallNeonAgain
    \/ CallNeonRetiled
    \/ CallNeonFresh
    \/ CallPack
    \/ CallPackAgain
    \/ CallTiledRetiled

SpecCall == InitCall /\ [][NextCall]_vars


\* --------------------------------------------------- index arithmetic
\* M, K, N and every loop counter are int; the subscripts and the memset
\* count are computed in int before they are widened.
RECURSIVE Pow2(_)
Pow2(n) == IF n <= 0 THEN 1 ELSE 2 * Pow2(n - 1)
IntMin == 0 - Pow2(IntBits - 1)
IntMax == Pow2(IntBits - 1) - 1
\* Two's-complement wraparound to the width of int.
IntWrap(v) == ((v - IntMin) % Pow2(IntBits)) + IntMin
\* What an int expression of mathematical value v yields.  Signed overflow
\* is undefined: the build may wrap, or may have widened the arithmetic
\* to 64 bits and deliver v itself.
IntResults(v) == IF v \in IntMin .. IntMax THEN {v} ELSE {IntWrap(v), v}
\* Conversion to size_t.
SizeT(v) == v % Pow2(2 * IntBits)

\* A[(i + r) * K + k] (lines 80-83); ii is the row i + r.
IndexA(ii, kk, kdim) == IntResults(ii * kdim + kk)
\* &B[k * N + j] (line 41).
IndexB(kk, jj, n) == IntResults(kk * n + jj)
\* &C[(i + r) * N + j] (lines 69-72 and 87-90).
IndexC(ii, jj, n) == IntResults(ii * n + jj)
\* M * N * sizeof(float) (line 48): the int product, converted to size_t,
\* times sizeof(float).
MemsetBytes(m, n) == {SizeT(SizeT(v) * FloatBytes) : v \in IntResults(m * n)}

IndexOfA ==
    /\ pc = "index"
    /\ \E ii \in 0 .. (M - 1), kk \in 0 .. (K - 1) :
          /\ idx_want' = ii * K + kk
          /\ idx_got' \in IndexA(ii, kk, K)
    /\ pc' = "index_A"
    /\ UNCHANGED <<inputs, particles, softmax, allocation, Cprev, C, packed_B,
                   i0, j0, k0, i, j, k, bp,
                   bp_k, acc, packs, history, steps, written, viol>>

IndexOfB ==
    /\ pc = "index"
    /\ \E kk \in 0 .. (K - 1), jj \in 0 .. (N - 1) :
          /\ idx_want' = kk * N + jj
          /\ idx_got' \in IndexB(kk, jj, N)
    /\ pc' = "index_B"
    /\ UNCHANGED <<inputs, particles, softmax, allocation, Cprev, C, packed_B,
                   i0, j0, k0, i, j, k, bp,
                   bp_k, acc, packs, history, steps, written, viol>>

IndexOfC ==
    /\ pc = "index"
    /\ \E ii \in 0 .. (M - 1), jj \in 0 .. (N - 1) :
          /\ idx_want' = ii * N + jj
          /\ idx_got' \in IndexC(ii, jj, N)
    /\ pc' = "index_C"
    /\ UNCHANGED <<inputs, particles, softmax, allocation, Cprev, C, packed_B,
                   i0, j0, k0, i, j, k, bp,
                   bp_k, acc, packs, history, steps, written, viol>>

MemsetCount ==
    /\ pc = "index"
    /\ idx_want' = M * N * FloatBytes
    /\ idx_got' \in MemsetBytes(M, N)
    /\ pc' = "index_memset"
    /\ UNCHANGED <<inputs, particles, softmax, allocation, Cprev, C, packed_B,
                   i0, j0, k0, i, j, k, bp,
                   bp_k, acc, packs, history, steps, written, viol>>

InitIdx == InitAt("index", Dims) /\ OthersIdle

NextIdx ==
    \/ IndexOfA
    \/ IndexOfB
    \/ IndexOfC
    \/ MemsetCount

SpecIdx == InitIdx /\ [][NextIdx]_vars


\* ------------------------------------------------ particle programs
\* tutorial_2: aos_baseline.cpp and soa_optimized.cpp.  Floats are exact
\* integers here: positions in units of 0.1, properties in units of 0.1
\* as far as main's values need it; the time step is an integer.
PosFields == {"x", "y", "z"}
VelFields == {"vx", "vy", "vz"}
PropFields == {"mass", "charge", "temperature", "pressure", "energy", "density",
               "spin_x", "spin_y", "spin_z"}
\* What main stores into field f of particle pi; seed shifts the velocities.
FillField(f, pi, seed) ==
    CASE f = "x" -> pi * 1
      [] f = "y" -> pi * 2
      [] f = "z" -> pi * 3
      [] f = "vx" -> 1 + seed
      [] f = "vy" -> 2 + seed
      [] f = "vz" -> 3 + seed
      [] f = "mass" -> 10
      [] f = "charge" -> 5
      [] f = "temperature" -> 3000
      [] f = "pressure" -> 1013250
      [] f = "density" -> 10
      [] OTHER -> 0
\* struct ParticleAoS has the fields of ParticlesSoA and pad.
AosFields == PosFields \cup VelFields \cup PropFields \cup {"pad"}
SoaFields == PosFields \cup VelFields \cup PropFields
\* main of aos_baseline.cpp, lines 31-50.
FillAoS(n, seed) == [pi \in 0 .. (n - 1) |-> [f \in AosFields |-> FillField(f, pi, seed)]]
\* main of soa_optimized.cpp, lines 31-57.
FillSoA(n, seed) == [f \in SoaFields |-> [pi \in 0 .. (n - 1) |-> FillField(f, pi, seed)]]

\* update_positions(ParticleAoS* p, int n, float dt): the loop from ii on.
RECURSIVE AosLoop(_, _, _, _)
AosLoop(p, ii, n, step) ==
    IF ii < n
    THEN AosLoop([p EXCEPT ![ii] = [@ EXCEPT !.x = @ + p[ii].vx * step,
                                            !.y = @ + p[ii].vy * step,
                                            !.z = @ + p[ii].vz * step]],
                 ii + 1, n, step)
    ELSE p
update_positions_aos(p, n, step) == AosLoop(p, 0, n, step)

\* (mutant) y is advanced by vx.
SoaLoop_WrongVelocity(p, ii, n, step) ==
    [p EXCEPT !.x = [pi \in DOMAIN p.x |-> p.x[pi] + p.vx[pi] * step],
              !.y = [pi \in DOMAIN p.y |-> p.y[pi] + p.vx[pi] * step],
              !.z = [pi \in DOMAIN p.z |-> p.z[pi] + p.vz[pi] * step]]
\* update_positions(ParticlesSoA& p, int n, float dt): the loop from ii on.
RECURSIVE SoaLoop(_, _, _, _)
SoaLoop(p, ii, n, step) ==
    IF ii < n
    THEN SoaLoop([p EXCEPT !.x[ii] = @ + p.vx[ii] * step,
                           !.y[ii] = @ + p.vy[ii] * step,
                           !.z[ii] = @ + p.vz[ii] * step],
                 ii + 1, n, step)
    ELSE p
update_positions_soa(p, n, step) == SoaLoop(p, 0, n, step)

\* The checksum loops of the two mains: the sum of x + y + z.
RECURSIVE ChecksumAoS(_, _, _)
ChecksumAoS(p, ii, n) ==
    IF ii < n THEN p[ii].x + p[ii].y + p[ii].z + ChecksumAoS(p, ii + 1, n) ELSE 0
RECURSIVE ChecksumSoA(_, _, _)
ChecksumSoA(p, ii, n) ==
    IF ii < n THEN p.x[ii] + p.y[ii] + p.z[ii] + ChecksumSoA(p, ii + 1, n) ELSE 0

\* One iteration of main's loop "for (iter = 0; iter < iters; ++iter)".
UpdateAoS ==
    /\ pc = "particles"
    /\ iter_aos < MaxIters
    /\ aos' = update_positions_aos(aos, n_particles, dt)
    /\ iter_aos' = iter_aos + 1
    /\ UNCHANGED <<inputs, indexing, softmax, allocation, Cprev, C, machine, pc,
                   n_particles, dt,
                   soa, iter_soa>>

UpdateSoA ==
    /\ pc = "particles"
    /\ iter_soa < MaxIters
    /\ soa' = update_positions_soa(soa, n_particles, dt)
    /\ iter_soa' = iter_soa + 1
    /\ UNCHANGED <<inputs, indexing, softmax, allocation, Cprev, C, machine, pc,
                   n_particles, dt,
                   aos, iter_aos>>

\* Both programs have filled their particles with the same data.
InitParticles ==
    /\ InitAt("particles", {0}) /\ IndexIdle /\ SoftmaxIdle /\ AllocationIdle
    /\ n_particles \in 0 .. MaxParticles
    /\ dt \in 1 .. MaxDt
    /\ \E seed \in Seeds :
          /\ aos = FillAoS(n_particles, seed)
          /\ soa = FillSoA(n_particles, seed)
    /\ iter_aos = 0 /\ iter_soa = 0

NextParticles ==
    \/ UpdateAoS
    \/ UpdateSoA

SpecParticles == InitParticles /\ [][NextParticles]_vars


\* ===================================================================
\* The square kernels: matmul_tiled_neon, matmul_tiled (8-way unrolled)
\* and matmul_tiled_2d, all C = A * B for N x N matrices
\* ===================================================================
\* Unroll factor of matmul_tiled (lines 36-45).
UNROLL == 8
SquareDims == 0 .. MaxSquare
SquareTiles == {MR * b : b \in 1 .. MaxSquareTileBlocks}

\* The offsets of a loop "for (; jj < width; ++jj)" entered with jj.
RECURSIVE TailOffsets(_, _)
TailOffsets(jj, width) ==
    IF jj < width THEN <<jj>> \o TailOffsets(jj + 1, width) ELSE << >>

\* (mutant) the vector loop runs while jj < width: the last vector of a
\* ragged row reaches past width.
RECURSIVE NeonOffsets_NoTail(_, _)
NeonOffsets_NoTail(jj, width) ==
    IF jj < width
    THEN [l \in 1 .. MR |-> jj + l - 1] \o NeonOffsets_NoTail(jj + MR, width)
    ELSE << >>
\* matmul_tiled_neon lines 38-51, NEON build: the offsets c_row + jj
\* updated for one (i, k), in order: four lanes per step of the vector
\* loop while jj + 4 <= width, then the scalar tail.
RECURSIVE NeonOffsets(_, _)
NeonOffsets(jj, width) ==
    IF jj + MR <= width
    THEN [l \in 1 .. MR |-> jj + l - 1] \o NeonOffsets(jj + MR, width)
    ELSE TailOffsets(jj, width)

\* (mutant) the remainder loop starts again from jj = 0.
RECURSIVE UnrolledOffsets_TailFromZero(_, _)
UnrolledOffsets_TailFromZero(jj, width) ==
    IF jj + UNROLL <= width
    THEN [l \in 1 .. UNROLL |-> jj + l - 1]
             \o UnrolledOffsets_TailFromZero(jj + UNROLL, width)
    ELSE TailOffsets(0, width)
\* matmul_tiled lines 35-48: eight updates per step of the unrolled loop
\* while jj + 8 <= width, then the remainder loop.
RECURSIVE UnrolledOffsets(_, _)
UnrolledOffsets(jj, width) ==
    IF jj + UNROLL <= width
    THEN [l \in 1 .. UNROLL |-> jj + l - 1] \o UnrolledOffsets(jj + UNROLL, width)
    ELSE TailOffsets(jj, width)

\* The offsets one (i, k) updates in each kernel: the NEON build of
\* matmul_tiled_neon, its scalar fallback build (lines 53-55), the
\* unrolled matmul_tiled, and matmul_tiled_2d (lines 32-34, j - j0).
RowOffsets(kind, width) ==
    CASE kind = "neon" -> NeonOffsets(0, width)
      [] kind = "scalar" -> TailOffsets(0, width)
      [] kind = "unrolled" -> UnrolledOffsets(0, width)
      [] kind = "2d" -> TailOffsets(0, width)

\* c += a_ik * b on the values, or, with h, on the histories: the
\* product is appended to what the element of C has received.
Accumulate(h, c, Am, Bm, ia, ib) ==
    IF h THEN Append(c, <<ia, ib>>) ELSE c + Am[ia] * Rd(Bm, ib, 0)

\* The jj loops for one (i, k): c_row[jj] += a_ik * b_row[jj] for the
\* offsets of offs from position p on.
RECURSIVE RowUpdate(_, _, _, _, _, _, _, _, _)
RowUpdate(h, Am, Bm, Cm, offs, p, c_row, ia, b_row) ==
    IF p <= Len(offs)
    THEN CHOOSE res \in
             {RowUpdate(h, Am, Bm, c2, offs, p + 1, c_row, ia, b_row) :
                 c2 \in {IF c_row + offs[p] \in DOMAIN Cm
                         THEN [Cm EXCEPT ![c_row + offs[p]] =
                                  Accumulate(h, @, Am, Bm, ia, b_row + offs[p])]
                         ELSE Cm}} : TRUE
    ELSE Cm

\* for (k = k0; k < k_end; ++k): a_ik = A[i * N + k], b_row = &B[k * N + j0].
RECURSIVE SquareK(_, _, _, _, _, _, _, _, _, _, _)
SquareK(h, kind, Am, Bm, Cm, ii, kk, kend, jo, width, n) ==
    IF kk < kend
    THEN CHOOSE res \in
             {SquareK(h, kind, Am, Bm, c2, ii, kk + 1, kend, jo, width, n) :
                 c2 \in {RowUpdate(h, Am, Bm, Cm, RowOffsets(kind, width), 1,
                                   ii * n + jo, ii * n + kk, kk * n + jo)}} : TRUE
    ELSE Cm

\* for (i = i0; i < i_end; ++i): c_row = &C[i * N + j0].
RECURSIVE SquareI(_, _, _, _, _, _, _, _, _, _, _, _)
SquareI(h, kind, Am, Bm, Cm, ii, iend, ko, kend, jo, width, n) ==
    IF ii < iend
    THEN CHOOSE res \in
             {SquareI(h, kind, Am, Bm, c2, ii + 1, iend, ko, kend, jo, width, n) :
                 c2 \in {SquareK(h, kind, Am, Bm, Cm, ii, ko, kend, jo, width, n)}} : TRUE
    ELSE Cm

\* for (k0 = 0; k0 < N; k0 += TILE): k_end = min(k0 + TILE, N).
RECURSIVE SquareK0(_, _, _, _, _, _, _, _, _, _)
SquareK0(h, kind, Am, Bm, Cm, io, jo, ko, n, t) ==
    IF ko < n
    THEN CHOOSE res \in
             {SquareK0(h, kind, Am, Bm, c2, io, jo, ko + t, n, t) :
                 c2 \in {SquareI(h, kind, Am, Bm, Cm, io, TileEnd(io, t, n),
                                 ko, TileEnd(ko, t, n), jo,
                                 TileEnd(jo, t, n) - jo, n)}} : TRUE
    ELSE Cm

\* for (j0 = 0; j0 < N; j0 += TILE): i_end, j_end, width = j_end - j0.
RECURSIVE SquareJ0(_, _, _, _, _, _, _, _, _)
SquareJ0(h, kind, Am, Bm, Cm, io, jo, n, t) ==
    IF jo < n
    THEN CHOOSE res \in
             {SquareJ0(h, kind, Am, Bm, c2, io, jo + t, n, t) :
                 c2 \in {SquareK0(h, kind, Am, Bm, Cm, io, jo, 0, n, t)}} : TRUE
    ELSE Cm

\* for (i0 = 0; i0 < N; i0 += TILE).
RECURSIVE SquareI0(_, _, _, _, _, _, _, _)
SquareI0(h, kind, Am, Bm, Cm, io, n, t) ==
    IF io < n
    THEN CHOOSE res \in
             {SquareI0(h, kind, Am, Bm, c2, io + t, n, t) :
                 c2 \in {SquareJ0(h, kind, Am, Bm, Cm, io, 0, n, t)}} : TRUE
    ELSE Cm

\* std::memset(C, 0, N * N * sizeof(float)) and the loop nest.
SquareKernel(h, kind, Am, Bm, Cm, n, t) ==
    SquareI0(h, kind, Am, Bm,
             [x \in DOMAIN Cm |-> IF x < n * n THEN (IF h THEN << >> ELSE 0)
                                  ELSE Cm[x]],
             0, n, t)

\* matmul_tiled_neon(A, B, C, N), built with and without NEON.
matmul_tiled_neon(h, Am, Bm, Cm, n, t) == SquareKernel(h, "neon", Am, Bm, Cm, n, t)
matmul_tiled_neon_fallback(h, Am, Bm, Cm, n, t) ==
    SquareKernel(h, "scalar", Am, Bm, Cm, n, t)
\* matmul_tiled(A, B, C, N) of matmul_tiled.cpp, the 8-way unrolled kernel.
matmul_tiled_unrolled(h, Am, Bm, Cm, n, t) ==
    SquareKernel(h, "unrolled", Am, Bm, Cm, n, t)
\* matmul_tiled_2d(A, B, C, N).
matmul_tiled_2d(h, Am, Bm, Cm, n, t) == SquareKernel(h, "2d", Am, Bm, Cm, n, t)

\* main of the square programs: A, B and C hold N * N floats.
InitSquare ==
    /\ N \in SquareDims /\ M = N /\ K = N
    /\ TILE \in SquareTiles
    /\ \E seed \in Seeds :
          /\ A = FillA(seed, BufLen(N, N))
          /\ B = FillB(seed, BufLen(N, N))
    /\ InitRest("square")
    /\ OthersIdle

\* The kernel call of each main; hist receives, for every element of C,
\* the products the call added to it.
CallTiledNeon ==
    /\ pc = "square"
    /\ C' = matmul_tiled_neon(FALSE, A, B, C, N, TILE)
    /\ hist' = matmul_tiled_neon(TRUE, A, B, hist, N, TILE)
    /\ pc' = "tiled_neon"
    /\ UNCHANGED <<frame, machine_rest>>

CallTiledNeonFallback ==
    /\ pc = "square"
    /\ C' = matmul_tiled_neon_fallback(FALSE, A, B, C, N, TILE)
    /\ hist' = matmul_tiled_neon_fallback(TRUE, A, B, hist, N, TILE)
    /\ pc' = "tiled_neon_fallback"
    /\ UNCHANGED <<frame, machine_rest>>

CallTiledUnrolled ==
    /\ pc = "square"
    /\ C' = matmul_tiled_unrolled(FALSE, A, B, C, N, TILE)
    /\ hist' = matmul_tiled_unrolled(TRUE, A, B, hist, N, TILE)
    /\ pc' = "tiled_unrolled"
    /\ UNCHANGED <<frame, machine_rest>>

CallTiled2d ==
    /\ pc = "square"
    /\ C' = matmul_tiled_2d(FALSE, A, B, C, N, TILE)
    /\ hist' = matmul_tiled_2d(TRUE, A, B, hist, N, TILE)
    /\ pc' = "tiled_2d"
    /\ UNCHANGED <<frame, machine_rest>>

NextSquare ==
    \/ CallTiledNeon
    \/ CallTiledNeonFallback
    \/ CallTiledUnrolled
    \/ CallTiled2d

SpecSquare == InitSquare /\ [][NextSquare]_vars


\* ===================================================================
\* softmax_scale: baseline, __restrict__ and aligned/split variants
\* ===================================================================
\* A float is a non-negative number of units of 2^-UnitBits with at most
\* MantissaBits significant bits; every operation rounds its exact result
\* to the nearest such number, ties to even, as float arithmetic does.
One == Pow2(UnitBits)
Max(a, b) == IF a > b THEN a ELSE b
RECURSIVE BitLen(_)
BitLen(v) == IF v = 0 THEN 0 ELSE 1 + BitLen(v \div 2)
\* The spacing of the floats around v, v in units of 2^-f.
Quantum(v, f) == Pow2(Max(BitLen(v) - MantissaBits, f - UnitBits))
RoundEven(v, q) ==
    IF 2 * (v % q) > q \/ (2 * (v % q) = q /\ (v \div q) % 2 = 1)
    THEN (v \div q) + 1
    ELSE v \div q
\* v units of 2^-f rounded to a float.
RoundFloat(v, f) ==
    (RoundEven(v, Quantum(v, f)) * Quantum(v, f)) \div Pow2(f - UnitBits)

\* a * b, a + b and 1.0f / a on floats.
FMul(a, b) == RoundFloat(a * b, 2 * UnitBits)
FAdd(a, b) == RoundFloat(a + b, UnitBits)
FInv(a) ==
    RoundFloat(2 * (Pow2(3 * UnitBits) \div a)
                   + (IF Pow2(3 * UnitBits) % a = 0 THEN 0 ELSE 1),
               2 * UnitBits + 1)
\* std::exp(x - max_val) for x <= max_val: e^0, e^-1/2, e^-1, e^-3/2, e^-2
\* rounded to four significant bits.
ExpTable == <<One, (10 * One) \div 16, (12 * One) \div 32, (14 * One) \div 64,
              (9 * One) \div 64>>
FExpDiff(x, max_val) == ExpTable[((2 * (max_val - x)) \div One) + 1]

InputValues == {(x * One) \div 2 : x \in 0 .. MaxInputSteps}
ScaleValues == {One + (x * One) \div 4 : x \in 0 .. MaxScaleSteps}
Variants == {"baseline", "restrict", "aligned"}
Aliases == {"none", "out_in", "out_scale"}

\* The buffer behind the pointer output of a call.
OutputOf(alias) ==
    CASE alias = "none" -> "output"
      [] alias = "out_in" -> "input"
      [] alias = "out_scale" -> "scale"

\* find_max / pass_max: m = data[0]; for (i = 1; i < N; ++i) if (data[i] > m) m = data[i].
RECURSIVE MaxFrom(_, _, _, _)
MaxFrom(data, ii, n, m) ==
    IF ii < n THEN MaxFrom(data, ii + 1, n, IF data[ii] > m THEN data[ii] ELSE m)
    ELSE m
find_max(data, n) == MaxFrom(data, 1, n, data[0])

\* Pass 2 of the baseline and of the restrict variant: output[i] =
\* exp(input[i] - max_val); sum += output[i].  The buffers are read and
\* written in memory, so that a store through output is seen by a later
\* load through input or scale when they are the same buffer.
RECURSIVE ExpInPlace(_, _, _, _, _, _, _)
ExpInPlace(mem, outp, inp, max_val, ii, n, sum) ==
    IF ii < n
    THEN LET e == FExpDiff(mem[inp][ii], max_val)
         IN  ExpInPlace([mem EXCEPT ![outp][ii] = e], outp, inp, max_val,
                        ii + 1, n, FAdd(sum, e))
    ELSE [mem |-> mem, sum |-> sum]

\* Pass 3 of the baseline and of the restrict variant:
\* output[i] *= inv_sum * scale[i].
RECURSIVE NormaliseInPlace(_, _, _, _, _, _)
NormaliseInPlace(mem, outp, sp, inv_sum, ii, n) ==
    IF ii < n
    THEN NormaliseInPlace(
             [mem EXCEPT ![outp][ii] = FMul(mem[outp][ii], FMul(inv_sum, mem[sp][ii]))],
             outp, sp, inv_sum, ii + 1, n)
    ELSE mem

\* softmax_scale of softmax_baseline.cpp.
softmax_scale_baseline(mem, outp, inp, sp, n) ==
    LET p2 == ExpInPlace(mem, outp, inp, find_max(mem[inp], n), 0, n, 0)
    IN  NormaliseInPlace(p2.mem, outp, sp, FInv(p2.sum), 0, n)

\* softmax_scale of softmax_restrict.cpp: the same statements, with
\* std::expf and __restrict__ on the three pointers.
softmax_scale_restrict(mem, outp, inp, sp, n) ==
    LET p2 == ExpInPlace(mem, outp, inp, find_max(mem[inp], n), 0, n, 0)
    IN  NormaliseInPlace(p2.mem, outp, sp, FInv(p2.sum), 0, n)

\* pass_exp: tmp[i] = exp(input[i] - max_val); sum += tmp[i].
RECURSIVE pass_exp(_, _, _, _, _, _)
pass_exp(tmp, input, max_val, ii, n, sum) ==
    IF ii < n
    THEN LET e == FExpDiff(input[ii], max_val)
         IN  pass_exp([tmp EXCEPT ![ii] = e], input, max_val, ii + 1, n, FAdd(sum, e))
    ELSE [tmp |-> tmp, sum |-> sum]

\* pass_normalise: output[i] = tmp[i] * inv_sum * scale[i], which is
\* (tmp[i] * inv_sum) * scale[i].  With output and scale the same buffer
\* the call breaks the __restrict__ of both parameters; every iteration
\* loads scale[i] before it stores output[i], in scalar and in vector
\* code, so each element is computed from the scale the caller passed.
RECURSIVE pass_normalise(_, _, _, _, _, _, _)
pass_normalise(mem, outp, tmp, sp, inv_sum, ii, n) ==
    IF ii < n
    THEN pass_normalise(
             [mem EXCEPT ![outp][ii] = FMul(FMul(tmp[ii], inv_sum), mem[sp][ii])],
             outp, tmp, sp, inv_sum, ii + 1, n)
    ELSE mem

\* softmax_scale of softmax_aligned.cpp: std::vector<float> tmp(N),
\* pass_max, pass_exp, pass_normalise.
softmax_scale_aligned(mem, outp, inp, sp, n) ==
    LET p2 == pass_exp(Filled(n, 0), mem[inp], find_max(mem[inp], n), 0, n, 0)
    IN  pass_normalise(mem, outp, p2.tmp, sp, FInv(p2.sum), 0, n)

\* The output array a variant has left.
OutputArray(v) == sm_mem[v][OutputOf(sm_alias)]

\* main of each variant has filled its buffers; the three programs are
\* given the same N, input and scale, and the same choice of the buffer
\* passed as output.
InitSoftmax ==
    /\ InitAt("softmax", {0}) /\ IndexIdle /\ ParticlesIdle /\ AllocationIdle
    /\ sm_n \in 1 .. MaxSoftmaxN
    /\ sm_alias \in Aliases
    /\ \E input \in [0 .. (sm_n - 1) -> InputValues],
          scale \in [0 .. (sm_n - 1) -> ScaleValues] :
          sm_mem = [v \in Variants |->
                       [input |-> input, scale |-> scale, output |-> Filled(sm_n, 0)]]
    /\ sm_done = {}

\* softmax_scale(output.data(), input.data(), scale.data(), N) of
\* softmax_baseline.
CallSoftmaxBaseline ==
    /\ pc = "softmax" /\ "baseline" \notin sm_done
    /\ sm_mem' = [sm_mem EXCEPT !["baseline"] =
                     softmax_scale_baseline(@, OutputOf(sm_alias), "input", "scale", sm_n)]
    /\ sm_done' = sm_done \cup {"baseline"}
    /\ UNCHANGED <<inputs, indexing, particles, allocation, Cprev, C, machine, pc,
                   sm_n, sm_alias>>

\* The same call of softmax_restrict; its parameters are __restrict__, so
\* it is called with three distinct buffers only.
CallSoftmaxRestrict ==
    /\ pc = "softmax" /\ "restrict" \notin sm_done
    /\ sm_alias = "none"
    /\ sm_mem' = [sm_mem EXCEPT !["restrict"] =
                     softmax_scale_restrict(@, OutputOf(sm_alias), "input", "scale", sm_n)]
    /\ sm_done' = sm_done \cup {"restrict"}
    /\ UNCHANGED <<inputs, indexing, particles, allocation, Cprev, C, machine, pc,
                   sm_n, sm_alias>>

\* softmax_scale(output, input, scale_, N) of softmax_aligned.
CallSoftmaxAligned ==
    /\ pc = "softmax" /\ "aligned" \notin sm_done
    /\ sm_mem' = [sm_mem EXCEPT !["aligned"] =
                     softmax_scale_aligned(@, OutputOf(sm_alias), "input", "scale", sm_n)]
    /\ sm_done' = sm_done \cup {"aligned"}
    /\ UNCHANGED <<inputs, indexing, particles, allocation, Cprev, C, machine, pc,
                   sm_n, sm_alias>>

NextSoftmax ==
    \/ CallSoftmaxBaseline
    \/ CallSoftmaxRestrict
    \/ CallSoftmaxAligned

SpecSoftmax == InitSoftmax /\ [][NextSoftmax]_vars


\* ===================================================================
\* The programs that assume 64-byte alignment: main of softmax_aligned
\* and main of triad_aligned
\* ===================================================================
\* The alignment asserted by __builtin_assume_aligned(ptr, 64) and asked
\* of posix_memalign.
CacheLine == 64
\* The alignment std::malloc and operator new guarantee: that of
\* std::max_align_t.
MallocAlign == 16
Null == 0

\* Addresses an allocation with the given alignment guarantee may return.
Addresses(align) ==
    {x \in 1 .. (MaxAddrSlots * MallocAlign) : x % align = 0}
\* Those not held by a live buffer.
FreeAddresses(align) ==
    {x \in Addresses(align) : \A b \in live : heap[b] # x}

SoftmaxBuffers == {"input", "scale", "output"}
TriadBuffers == {"a", "b", "out"}
\* The pointers main holds before its first allocation.
NoPointers(bufs) == [b \in bufs |-> Null]
NoFrees(bufs) == [b \in bufs |-> 0]

\* p = std::malloc(N * sizeof(float)): an address aligned for any
\* standard type, or nullptr.
Malloc(b) ==
    \E x \in FreeAddresses(MallocAlign) \cup {Null} :
        /\ heap' = [heap EXCEPT ![b] = x]
        /\ live' = IF x = Null THEN live ELSE live \cup {b}

\* alloc_aligned_floats(n): posix_memalign(&p, 64, n * sizeof(float));
\* nullptr when it fails, which it does for a negative n, whose size
\* converted to size_t exceeds every address space.
alloc_aligned_floats(b) ==
    \E x \in (IF alloc_n < 0 THEN {} ELSE FreeAddresses(CacheLine)) \cup {Null} :
        /\ heap' = [heap EXCEPT ![b] = x]
        /\ live' = IF x = Null THEN live ELSE live \cup {b}

\* std::free(p) for each pointer of bufs: nothing for nullptr.
FreeAll(bufs) ==
    /\ frees' = [b \in DOMAIN frees |->
                    IF b \in bufs /\ heap[b] # Null THEN frees[b] + 1 ELSE frees[b]]
    /\ live' = live \ bufs

\* What no step of the allocating programs changes.
alloc_frame == <<inputs, indexing, particles, softmax, Cprev, C, machine, alloc_n>>

\* ---- softmax_aligned, main (lines 79-116)
SaMallocInput ==
    /\ pc = "sa_input"
    /\ Malloc("input")
    /\ pc' = "sa_scale"
    /\ UNCHANGED <<alloc_frame, frees, asserted, stored, calls, reported, ret>>

SaMallocScale ==
    /\ pc = "sa_scale"
    /\ Malloc("scale")
    /\ pc' = "sa_output"
    /\ UNCHANGED <<alloc_frame, frees, asserted, stored, calls, reported, ret>>

SaMallocOutput ==
    /\ pc = "sa_output"
    /\ Malloc("output")
    /\ pc' = "sa_fill"
    /\ UNCHANGED <<alloc_frame, frees, asserted, stored, calls, reported, ret>>

\* Lines 92-96: the fill of input and scale_ and the memset of output.
\* main does not test the pointers: through a null pointer the stores
\* are undefined, and the program is taken to stop there.
SaFill ==
    /\ pc = "sa_fill"
    /\ IF \A b \in SoftmaxBuffers : heap[b] # Null
       THEN stored' = stored \cup SoftmaxBuffers /\ pc' = "sa_call"
       ELSE stored' = stored /\ pc' = "sa_crashed"
    /\ UNCHANGED <<alloc_frame, heap, live, frees, asserted, calls, reported, ret>>

\* Lines 99-100 and 71-77: one call of softmax_scale.  std::vector<float>
\* tmp(N) takes its storage from operator new and returns it when the
\* call ends; pass_max asserts the alignment of input, pass_exp that of
\* tmp and input, pass_normalise that of output, tmp and scale.
SaCall ==
    /\ pc = "sa_call" /\ calls < MaxCalls
    /\ \E t \in FreeAddresses(MallocAlign) :
          asserted' = asserted \cup
              {<<"pass_max.data", heap["input"]>>,
               <<"pass_exp.tmp", t>>, <<"pass_exp.input", heap["input"]>>,
               <<"pass_normalise.output", heap["output"]>>,
               <<"pass_normalise.tmp", t>>,
               <<"pass_normalise.scale", heap["scale"]>>}
    /\ stored' = stored \cup {"output"}
    /\ calls' = calls + 1
    /\ UNCHANGED <<alloc_frame, pc, heap, live, frees, reported, ret>>

\* Lines 101-115: the loop is over, the results are printed, the three
\* buffers are freed, main returns 0.
SaFinish ==
    /\ pc = "sa_call"
    /\ FreeAll(SoftmaxBuffers)
    /\ ret' = 0
    /\ pc' = "sa_done"
    /\ UNCHANGED <<alloc_frame, heap, asserted, stored, calls, reported>>

\* ---- triad_aligned, main (lines 32-80)
TrAllocA ==
    /\ pc = "tr_a"
    /\ alloc_aligned_floats("a")
    /\ pc' = "tr_b"
    /\ UNCHANGED <<alloc_frame, frees, asserted, stored, calls, reported, ret>>

TrAllocB ==
    /\ pc = "tr_b"
    /\ alloc_aligned_floats("b")
    /\ pc' = "tr_out"
    /\ UNCHANGED <<alloc_frame, frees, asserted, stored, calls, reported, ret>>

TrAllocOut ==
    /\ pc = "tr_out"
    /\ alloc_aligned_floats("out")
    /\ pc' = "tr_check"
    /\ UNCHANGED <<alloc_frame, frees, asserted, stored, calls, reported, ret>>

\* (mutant) the failure path returns without freeing.
TrFail_Leak ==
    /\ pc = "tr_check"
    /\ \E b \in TriadBuffers : heap[b] = Null
    /\ reported' = TRUE
    /\ ret' = 1
    /\ pc' = "tr_done"
    /\ UNCHANGED <<alloc_frame, heap, live, frees, asserted, stored, calls>>

\* Lines 43-49: if (!a || !b || !out): the message, the three frees,
\* return 1.
TrFail ==
    /\ pc = "tr_check"
    /\ \E b \in TriadBuffers : heap[b] = Null
    /\ reported' = TRUE
    /\ FreeAll(TriadBuffers)
    /\ ret' = 1
    /\ pc' = "tr_done"
    /\ UNCHANGED <<alloc_frame, heap, asserted, stored, calls>>

\* Lines 43 (false) and 51-55: the fill of a and b and the memset of out,
\* which store n floats each.
TrFill ==
    /\ pc = "tr_check"
    /\ \A b \in TriadBuffers : heap[b] # Null
    /\ stored' = IF alloc_n > 0 THEN stored \cup TriadBuffers ELSE stored
    /\ pc' = "tr_call"
    /\ UNCHANGED <<alloc_frame, heap, live, frees, asserted, calls, reported, ret>>

\* Lines 58-59 and 8-23: one call of triad; triad_impl asserts the
\* alignment of out, a and b and stores n floats to out.
TrCall ==
    /\ pc = "tr_call" /\ calls < MaxCalls
    /\ asserted' = asserted \cup
          {<<"triad_impl.out", heap["out"]>>, <<"triad_impl.a", heap["a"]>>,
           <<"triad_impl.b", heap["b"]>>}
    /\ stored' = IF alloc_n > 0 THEN stored \cup {"out"} ELSE stored
    /\ calls' = calls + 1
    /\ UNCHANGED <<alloc_frame, pc, heap, live, frees, reported, ret>>

\* Lines 60-79: the loop is over, the checksum is printed, the three
\* buffers are freed, main returns 0.
TrFinish ==
    /\ pc = "tr_call"
    /\ FreeAll(TriadBuffers)
    /\ ret' = 0
    /\ pc' = "tr_done"
    /\ UNCHANGED <<alloc_frame, heap, asserted, stored, calls, reported>>

\* One of the two programs stands at the start of its main.
InitAlloc ==
    /\ \/ /\ InitAt("sa_input", {0})
          /\ alloc_n \in 1 .. MaxAllocN
          /\ heap = NoPointers(SoftmaxBuffers)
          /\ frees = NoFrees(SoftmaxBuffers)
       \/ /\ InitAt("tr_a", {0})
          /\ alloc_n \in (0 - 1) .. MaxAllocN
          /\ heap = NoPointers(TriadBuffers)
          /\ frees = NoFrees(TriadBuffers)
    /\ IndexIdle /\ ParticlesIdle /\ SoftmaxIdle
    /\ live = {} /\ asserted = {} /\ stored = {}
    /\ calls = 0 /\ reported = FALSE /\ ret = 0 - 1

NextAlloc ==
    \/ SaMallocInput \/ SaMallocScale \/ SaMallocOutput
    \/ SaFill \/ SaCall \/ SaFinish
    \/ TrAllocA \/ TrAllocB \/ TrAllocOut
    \/ TrFail \/ TrFill \/ TrCall \/ TrFinish

SpecAlloc == InitAlloc /\ [][NextAlloc]_vars


\* ===================================================================
\* Claims
\* ===================================================================

\* C1: for every M, K, N >= 1 (multiples of 4 or not) the C left by
\* matmul_neon equals, element for element, the C matmul_naive computes.
C1_NeonEqualsNaive ==
    (pc = "done" /\ M >= 1 /\ K >= 1 /\ N >= 1)
        => C = matmul_naive(A, B, C, M, K, N)

\* C2: for every M, K, N >= 1 no access of matmul_neon or pack_B_tile
\* leaves the caller's buffers: A, B and C are touched only inside
\* [0, M*K), [0, K*N) and [0, M*N).
C2_AccessesInBounds ==
    (M >= 1 /\ K >= 1 /\ N >= 1)
        => /\ viol \cap {"rdA", "rdB", "rdC", "wrC"} = {}
           /\ written \subseteq DOMAIN C

\* C3: with M = 0 or N = 0 the call writes no element of the output
\* buffer; with K = 0 and M, N > 0 it runs no pack_B_tile and no
\* micro-kernel step, and every entry of C is 0 when it returns.
C3_ZeroDimensions ==
    /\ (M = 0 \/ N = 0) => (written = {} /\ "wrC" \notin viol)
    /\ (K = 0 /\ M > 0 /\ N > 0) =>
          /\ packs = 0 /\ steps = 0
          /\ pc = "done" => \A x \in DOMAIN C : C[x] = 0

\* The call has returned with K = 0 on an output buffer of more than one
\* micro-block, every element of which the entry memset has written.
C3_Witness ==
    /\ pc = "done"
    /\ K = 0 /\ M > MR /\ N > MR
    /\ written = DOMAIN C

\* C4: with M <= 0 or N <= 0 (negative values included) the call writes
\* no memory at all, the entry memset included; with K <= 0 it runs
\* neither pack_B_tile nor the micro-kernel.
C4_NonPositiveDimensions ==
    /\ (M <= 0 \/ N <= 0) => (written = {} /\ "wrC" \notin viol)
    /\ (K <= 0) => (packs = 0 /\ steps = 0)

\* The layout rule of the packed panel read backwards: element (kk, c)
\* of a klen x w sub-rectangle sits in micro-panel c \div 4, row kk,
\* lane c % 4.
Unpack(p, klen, w) ==
    [kk \in 0 .. (klen - 1), c \in 0 .. (w - 1) |->
        p[((c \div MR) * klen + kk) * MR + (c % MR)]]
\* The sub-rectangle B[kstart .. kend) x [jstart .. jend).
SubRect(Bm, kstart, kend, jstart, jend, n) ==
    [kk \in 0 .. (kend - kstart - 1), c \in 0 .. (jend - jstart - 1) |->
        Bm[(kstart + kk) * n + jstart + c]]

\* C7: after pack_B_tile(B, packed, k0, k_end, j0, j_end, N) the panel,
\* unpacked by packed[(g * k_len + (k - k0)) * 4 + l] = B[k * N + j0 + 4g + l]
\* for every lane with j0 + 4g + l < j_end, is exactly the sub-rectangle
\* B[k0 .. k_end) x [j0 .. j_end).
C7_PackLayout ==
    pc \in {"i", "j", "k"} =>
        Unpack(packed_B, k_len, j_end - j0) = SubRect(B, k0, k_end, j0, j_end, N)

\* A panel of more than one micro-panel and more than one row was packed,
\* its last micro-panel narrower than 4 columns.
C7_Witness ==
    /\ pc = "i"
    /\ j_end - j0 > MR /\ (j_end - j0) % MR # 0
    /\ k_len > 1

\* The sum over k in [0, kend) of A[r, k] * B[k, c].
RECURSIVE SumBelow(_, _, _)
SumBelow(r, c, kend) ==
    IF kend <= 0 THEN 0
    ELSE SumBelow(r, c, kend - 1) + A[r * K + (kend - 1)] * B[(kend - 1) * N + c]
PartialSum(r, c, kend) == SumBelow(r, c, kend)
\* The origin of the tile that holds row or column x.
TileOrigin(x) == x - (x % TILE)
\* What C[x] holds when its output tile is finished, is the current one
\* with the k-tiles below kdone accumulated, or has not been started.
TileValue(x, finished, current, kdone) ==
    IF finished THEN PartialSum(x \div N, x % N, K)
    ELSE IF current THEN PartialSum(x \div N, x % N, kdone)
    ELSE 0

\* C10: C is zeroed at entry and then only accumulated into: at the end
\* of the k-tile iteration with upper bound k_end every C[i,j] of the
\* current output tile (i0, j0) is the sum over k in [0, k_end) of
\* A[i,k]*B[k,j], every element of a tile not yet started is 0 and every
\* element of a finished tile is the full sum over [0, K).
C10_Accumulation ==
    /\ pc = "k0" =>
          \A x \in DOMAIN C :
              LET ti == TileOrigin(x \div N)
                  tj == TileOrigin(x % N)
              IN  C[x] = TileValue(x, ti < i0 \/ (ti = i0 /\ tj < j0),
                                   ti = i0 /\ tj = j0, Min(k0, K))
    /\ pc = "j0" =>
          \A x \in DOMAIN C :
              LET ti == TileOrigin(x \div N)
                  tj == TileOrigin(x % N)
              IN  C[x] = TileValue(x, ti < i0 \/ (ti = i0 /\ tj < j0), FALSE, 0)
    /\ pc \in {"i0", "done"} =>
          \A x \in DOMAIN C :
              C[x] = TileValue(x, TileOrigin(x \div N) < i0, FALSE, 0)

\* C5: two calls of matmul_neon with identical A, B, M, K, N leave
\* identical C, element for element.
C5_RepeatedCallsAgree ==
    pc = "neon_again" => C = Cprev

\* C6: the C a call leaves does not depend on what C held before it: the
\* call made on a zeroed buffer and the call made on the output of an
\* earlier call both leave what the call on stale content left.
C6_InitialContentIrrelevant ==
    pc \in {"neon_fresh", "neon_again"} => C = Cprev

\* C8: with A, B, M, K, N fixed, the C the blocked kernel computes is the
\* same for every tile size.
C8_TileSizeInvariant ==
    pc = "neon_retiled" => C = Cprev

\* C9: the scalar 2D-tiled kernel matmul_tiled leaves the same C as
\* matmul_naive for every M, K, N >= 0, below one tile or ragged.
C9_TiledEqualsNaive ==
    (pc = "tiled" /\ M >= 0 /\ K >= 0 /\ N >= 0)
        => C = matmul_naive(A, B, Stale(BufLen(M, N)), M, K, N)

\* matmul_tiled has returned from a call over several tiles whose last
\* tile is ragged in every dimension.
C9_Witness ==
    /\ pc = "tiled"
    /\ M > TILE /\ K > TILE /\ N > TILE
    /\ M % TILE # 0 /\ K % TILE # 0 /\ N % TILE # 0


\* ---------------------------------------------------- tiles visited
\* Number of steps of a loop "for (x = 0; x < dim; x += t)".
CeilDiv(dim, t) == IF dim <= 0 THEN 0 ELSE (dim + t - 1) \div t

\* The (i, j, k) index triples inside the bounds recorded for a tile.
TileBox(t) ==
    (t.i0 .. (t.i_end - 1)) \X (t.j0 .. (t.j_end - 1)) \X (t.k0 .. (t.k_end - 1))

\* C11: every tile triple visited has bounds [i0, min(i0+TILE, M)) x
\* [j0, min(j0+TILE, N)) x [k0, min(k0+TILE, K)) with origins that are
\* multiples of TILE and is non-empty; distinct visited tiles are
\* disjoint, and when the call returns every (i, j, k) of
\* [0,M) x [0,N) x [0,K) lies in exactly one visited tile.
C11_TilesPartition ==
    /\ \A n \in DOMAIN tiles :
          LET t == tiles[n] IN
          /\ t.i0 % TILE = 0 /\ t.j0 % TILE = 0 /\ t.k0 % TILE = 0
          /\ t.i_end = Min(t.i0 + TILE, M)
          /\ t.j_end = Min(t.j0 + TILE, N)
          /\ t.k_end = Min(t.k0 + TILE, K)
          /\ TileBox(t) # {}
    /\ \A n1, n2 \in DOMAIN tiles :
          n1 # n2 => TileBox(tiles[n1]) \cap TileBox(tiles[n2]) = {}
    /\ pc = "done" =>
          \A x \in (0 .. (M - 1)) \X (0 .. (N - 1)) \X (0 .. (K - 1)) :
              Cardinality({n \in DOMAIN tiles : x \in TileBox(tiles[n])}) = 1

\* The call has returned after several tiles in every dimension, the
\* last one ragged in every dimension.
C11_Witness ==
    /\ pc = "done"
    /\ M > TILE /\ N > TILE /\ K > TILE
    /\ M % TILE # 0 /\ N % TILE # 0 /\ K % TILE # 0
    /\ Len(tiles) = CeilDiv(M, TILE) * CeilDiv(N, TILE) * CeilDiv(K, TILE)

\* (i0, j0, k0) of tile a comes before that of tile b in lexicographic order.
LexBefore(a, b) ==
    \/ a.i0 < b.i0
    \/ a.i0 = b.i0 /\ a.j0 < b.j0
    \/ a.i0 = b.i0 /\ a.j0 = b.j0 /\ a.k0 < b.k0

\* C12: the tile triples are visited in ascending lexicographic order of
\* (i0, j0, k0): all k-tiles of one (i0, j0) output tile, in ascending k0,
\* come before any tile of the next (i0, j0).
C12_LexicographicOrder ==
    \A n1, n2 \in DOMAIN tiles : n1 < n2 => LexBefore(tiles[n1], tiles[n2])

\* Tiles of several output tiles, each with several k-tiles, have been
\* visited and the call has returned.
C12_Witness ==
    /\ pc = "done"
    /\ Cardinality({tiles[n].i0 : n \in DOMAIN tiles}) > 1
    /\ Cardinality({tiles[n].j0 : n \in DOMAIN tiles}) > 1
    /\ Cardinality({tiles[n].k0 : n \in DOMAIN tiles}) > 1

\* C13: in one call pack_B_tile is invoked once for each (j-tile, k-tile)
\* pair, ceil(N/TILE) * ceil(K/TILE) times in total, not once for each
\* (i-tile, j-tile, k-tile) triple.
C13_PackOncePerPanel ==
    (pc = "done" /\ M >= 1 /\ K >= 1 /\ N >= 1)
        => packs = CeilDiv(N, TILE) * CeilDiv(K, TILE)


\* ------------------------------------------------ order of summation
\* The products A[i,k]*B[k,j] of element (ii, jj) among those recorded in
\* log, in the order in which they were added.
OwnProducts(log, ii, jj) ==
    LET Own(e) == /\ e[1] \in (ii * K) .. (ii * K + K - 1)
                  /\ e[2] = (e[1] - ii * K) * N + jj
    IN  SelectSeq(log, Own)
\* Number of values of a loop counter in [0, dim).
Count(dim) == IF dim > 0 THEN dim ELSE 0
\* The products of element (ii, jj) for k = 0 .. n - 1, in ascending k.
Ascending(ii, jj, n) == [x \in 1 .. n |-> <<ii * K + (x - 1), (x - 1) * N + jj>>]

\* C14: for each output element C[i,j] the products A[i,k]*B[k,j] are
\* added in strictly ascending k, each k at most once at any moment of
\* the call and each k in [0,K) exactly once when the call returns.
C14_AscendingK ==
    \A ii \in 0 .. (M - 1), jj \in 0 .. (N - 1) :
        LET own == OwnProducts(hist[ii * N + jj], ii, jj)
        IN  /\ own = Ascending(ii, jj, Len(own))
            /\ Len(own) <= Count(K)
            /\ pc = "done" => Len(own) = Count(K)

\* The call has returned after several k-tiles, the last one ragged, over
\* several output tiles.
C14_Witness ==
    /\ pc = "done"
    /\ K > TILE /\ K % TILE # 0
    /\ M > TILE /\ N > TILE
    /\ Len(hist[0]) >= K


\* C15: for non-negative M, K, N every linear index the kernel computes
\* (i*K+k, k*N+j, (i+r)*N+j) and the byte count M*N*sizeof(float) given
\* to memset equal their mathematical values: nothing wraps around, also
\* when M*N, M*K or K*N exceeds the range of int.
C15_NoWraparound ==
    (pc \in {"index_A", "index_B", "index_C", "index_memset"}
        /\ M >= 0 /\ K >= 0 /\ N >= 0)
        => idx_got = idx_want


\* C16: matmul_neon writes nothing but C and its own scratch buffer: no
\* store lands outside C or outside packed_B, and A and B hold what main
\* put into them.
C16_WritesOnlyCAndScratch ==
    /\ "wrC" \notin viol
    /\ "wrP" \notin viol
    /\ \E seed \in Seeds :
          /\ A = FillA(seed, BufLen(M, K))
          /\ B = FillB(seed, BufLen(K, N))


\* Floats of the scratch buffer the pack of the current tile has written:
\* ceil((j_end - j0) / 4) micro-panels of k_len vectors of 4 floats.
PackedExtent == CeilDiv(j_end - j0, MR) * MR * k_len

\* C17: for every tile the packed extent ceil((j_end-j0)/4)*4*(k_end-k0)
\* is at most TILE*TILE; pack_B_tile never writes at or beyond index
\* TILE*TILE of the scratch buffer and the micro-kernel never reads the
\* scratch buffer at or beyond the extent the latest pack has written.
C17_ScratchBounds ==
    /\ "wrP" \notin viol
    /\ "rdP" \notin viol
    /\ pc \in {"i", "j", "k"} =>
          /\ PackedExtent <= TILE * TILE
          /\ PackedExtent <= BufLenOf(packed_B)
    /\ (pc = "k" /\ k < k_end) => bp_k + MR <= PackedExtent

\* The micro-kernel is about to read the last vector of a packed panel
\* that has several micro-panels, the last one of a ragged tile that is
\* shorter than TILE in k and in j.
C17_Witness ==
    /\ pc = "k" /\ k < k_end
    /\ k_len < TILE /\ j_end - j0 < TILE /\ (j_end - j0) % MR # 0
    /\ bp > 0
    /\ bp_k + MR = PackedExtent


\* C18: pack_B_tile run twice with the same B, k-range and j-range leaves
\* identical contents in the packed extent whatever the scratch buffer
\* held before, and B holds what it held before.
C18_PackIdempotent ==
    pc = "pack_again" =>
        /\ \A x \in 0 .. (PackedExtent - 1) : packed_B[x] = Cprev[x]
        /\ \E seed \in Seeds : B = FillB(seed, BufLen(K, N))


\* Every loop counter that changes in a step either advances by the step
\* of its loop or is set to the start value of a loop being entered.
CountersAdvance ==
    /\ i0' # i0 => i0' = i0 + TILE
    /\ j0' # j0 => (j0' = j0 + TILE \/ (pc = "i0" /\ j0' = 0))
    /\ k0' # k0 => (k0' = k0 + TILE \/ (pc = "j0" /\ k0' = 0))
    /\ i' # i => (i' = i + MR \/ (pc = "k0" /\ i' = i0))
    /\ j' # j => (j' = j + MR \/ (pc = "i" /\ j' = j0))
    /\ k' # k => (k' = k + 1 \/ (pc = "j" /\ k' = k0))
\* The micro-kernel k iterations one tile takes: a k loop of k_len
\* iterations for each 4-row, 4-column micro-block of the tile.
TileSteps(t) ==
    CeilDiv(t.i_end - t.i0, MR) * CeilDiv(t.j_end - t.j0, MR) * (t.k_end - t.k0)
RECURSIVE SumSteps(_, _)
SumSteps(ts, n) == IF n = 0 THEN 0 ELSE TileSteps(ts[n]) + SumSteps(ts, n - 1)

C20_AosEqualsSoa ==
    pc = "particles" =>
        /\ iter_aos = iter_soa =>
              /\ \A pi \in 0 .. (n_particles - 1), f \in PosFields :
                    aos[pi][f] = soa[f][pi]
              /\ ChecksumAoS(aos, 0, n_particles) = ChecksumSoA(soa, 0, n_particles)
        /\ \E seed \in Seeds :
              \A pi \in 0 .. (n_particles - 1) :
                  /\ \A f \in AosFields \ PosFields :
                        aos[pi][f] = FillField(f, pi, seed)
                  /\ \A f \in SoaFields \ PosFields :
                        soa[f][pi] = FillField(f, pi, seed)

\* Both programs have run several iterations over several particles and
\* the positions have moved.
C20_Witness ==
    /\ pc = "particles"
    /\ n_particles > 1
    /\ iter_aos = iter_soa /\ iter_aos > 1
    /\ aos[1].y # FillField("y", 1, 0)


\* ------------------------------------------------- the packed panel
\* C22: whenever a micro-kernel block reads the scratch buffer, the last
\* pack_B_tile ran for the current k-range and j-range, after k0 and j0
\* took their current values, and the buffer holds the packed image of
\* B[k0 .. k_end) x [j0 .. j_end): no block consumes a panel packed for
\* another tile.
C22_PanelMatchesTile ==
    (pc = "k" /\ k < k_end) =>
        /\ packs > 0 /\ packs = Len(tiles)
        /\ tiles[Len(tiles)] = [i0 |-> i0, j0 |-> j0, k0 |-> k0,
                                i_end |-> i_end, j_end |-> j_end, k_end |-> k_end]
        /\ Unpack(packed_src, k_len, j_end - j0)
              = SubRect(IndexOf(B), k0, k_end, j0, j_end, N)
        /\ Unpack(packed_B, k_len, j_end - j0) = SubRect(B, k0, k_end, j0, j_end, N)

\* A block of a later i-tile reads the panel of a k-tile that is not the
\* first one, in a j-tile that is not the first one.
C22_Witness ==
    /\ pc = "k" /\ k < k_end
    /\ i0 > 0 /\ j0 > 0 /\ k0 > 0
    /\ k > k0

\* C23: the vector the micro-kernel loads for micro-panel column j and
\* row k is read at offset (((j - j0)/4)*k_len + (k - k0))*4 of the
\* scratch buffer, the micro-panel of column j starts ((j - j0)/4)*k_len*4
\* floats into it, and the four lanes hold B[k*N+j .. k*N+j+3].
C23_PackedReadLayout ==
    (pc = "k" /\ k < k_end) =>
        /\ bp = ((j - j0) \div MR) * k_len * MR
        /\ bp_k = (((j - j0) \div MR) * k_len + (k - k0)) * MR
        /\ \A l \in Lanes :
              /\ k * N + j + l \in DOMAIN B
              /\ packed_B[bp_k + l] = B[k * N + j + l]

\* C24: in one micro-kernel invocation c0..c3 are loaded from C in the
\* step that enters the k loop, no element of C is written while k runs
\* over [k0, k_end), and the k loop is left only with k = k_end by the
\* step that stores c0..c3 to C and moves on to the next micro-block.
C24_StoreAfterKLoop ==
    [][/\ (pc = "j" /\ pc' = "k") =>
             /\ acc' = LoadBlock(C, i, j, N)
             /\ k' = k0
             /\ C' = C /\ written' = written
       /\ (pc = "k" /\ pc' = "k") =>
             /\ k < k_end /\ k' = k + 1
             /\ C' = C /\ written' = written
       /\ (pc = "k" /\ pc' # "k") =>
             /\ k = k_end
             /\ C' = StoreBlock(C, acc, i, j, N)
             /\ written' = written \cup BlockIdx(i, j, N)
             /\ pc' = "j" /\ j' = j + MR
       /\ (C' # C \/ written' # written) =>
             (pc = "entry" \/ (pc = "k" /\ ~(k < k_end)))]_vars

\* A micro-block of a tile with several rows of B has been stored after
\* its k loop ran to the end.
C24_Witness ==
    /\ pc = "j" /\ j > j0
    /\ k = k_end /\ k_len > 1
    /\ written # {}
    /\ steps >= k_len

\* Elements of C that belong to micro-block (ii, jj) of the current tile.
BlockOwn(ii, jj) ==
    {r * N + c : r \in ii .. (Min(ii + MR, i_end) - 1),
                 c \in jj .. (Min(jj + MR, j_end) - 1)}

\* C25: the micro-kernel invocation for micro-block (i, j) changes only
\* elements C[r*N + c] with r in [i, i+4), r < i_end and c in [j, j+4),
\* c < j_end, and leaves every other element of C as it was.
C25_BlockFrame ==
    [][(pc = "k" /\ pc' = "j") =>
          \A x \in DOMAIN C : C'[x] # C[x] => x \in BlockOwn(i, j)]_vars


\* ------------------------------------------------ the square kernels
\* What element (ii, jj) of C has received when every k in [0, N) was
\* added once, in ascending order, holds for every element of C.
AllAscending ==
    \A ii \in 0 .. (N - 1), jj \in 0 .. (N - 1) :
        hist[ii * N + jj] = Ascending(ii, jj, N)
\* The offsets 0, 1, .., width - 1, each once.
EachOnce(width) == [x \in 1 .. width |-> x - 1]

C27_UnrolledCoversRow ==
    /\ \A w \in 1 .. TILE : UnrolledOffsets(0, w) = EachOnce(w)
    /\ pc = "tiled_unrolled" =>
          /\ AllAscending
          /\ C = matmul_tiled_2d(FALSE, A, B, Stale(BufLen(N, N)), N, TILE)
          /\ C = matmul_naive(A, B, Stale(BufLen(N, N)), N, N, N)

\* The unrolled kernel has returned from a call over several tiles, the
\* full ones taking an unrolled step and remainder steps, the last one
\* narrower than the unroll factor.
C27_Witness ==
    /\ pc = "tiled_unrolled"
    /\ N > TILE
    /\ TILE > UNROLL /\ TILE % UNROLL # 0
    /\ N % TILE # 0 /\ N % TILE < UNROLL


\* ------------------------------------------------------ softmax_scale
\* C21: given the same N >= 1 and the same pairwise non-overlapping
\* input, scale and output arrays, softmax_scale of the baseline, of the
\* restrict variant and of the aligned/split variant leave the same
\* output array.
C21_SoftmaxVariantsAgree ==
    (pc = "softmax" /\ sm_alias = "none" /\ sm_done = Variants) =>
        /\ OutputArray("baseline") = OutputArray("restrict")
        /\ OutputArray("baseline") = OutputArray("aligned")

\* C30: softmax_scale of the aligned/split variant leaves the same output
\* as softmax_scale of the baseline when the caller passes overlapping
\* buffers: output identical to input, or output identical to scale.
C30_AlignedAgreesWhenAliased ==
    (pc = "softmax" /\ sm_alias # "none" /\ {"baseline", "aligned"} \subseteq sm_done) =>
        OutputArray("baseline") = OutputArray("aligned")


\* ------------------------------------------------------- alignment
\* C28: every pointer on which a helper asserts
\* __builtin_assume_aligned(ptr, 64) holds an address that is a multiple
\* of 64 at that call: input, scale, output and tmp in softmax_aligned,
\* a, b and out in triad_aligned, whatever the allocator returned.
C28_AssumedAlignmentHolds ==
    \A e \in asserted : e[2] % CacheLine = 0

\* The pointers of triad_aligned that are not null.
Allocated == {b \in TriadBuffers : heap[b] # Null}
TriadRuns == pc \in {"tr_a", "tr_b", "tr_out", "tr_check", "tr_call", "tr_done"}

\* C29: in triad_aligned, when one of the three aligned allocations has
\* failed main writes the message, frees every buffer that was allocated
\* and returns 1, having called triad never and stored to no buffer; the
\* fill and the triad calls happen only with all three buffers allocated,
\* and then each of the three is freed exactly once before main returns 0.
C29_AllocationFailureHandled ==
    TriadRuns =>
        /\ (stored # {} \/ calls > 0) => Allocated = TriadBuffers
        /\ reported => Allocated # TriadBuffers
        /\ \A b \in TriadBuffers : frees[b] <= 1 /\ (frees[b] = 1 => heap[b] # Null)
        /\ pc = "tr_done" =>
              /\ live = {}
              /\ \A b \in Allocated : frees[b] = 1
              /\ IF Allocated = TriadBuffers
                 THEN ret = 0 /\ ~reported
                 ELSE ret = 1 /\ reported /\ calls = 0 /\ stored = {}
        /\ pc # "tr_done" => (ret = 0 - 1 /\ ~reported /\ \A b \in TriadBuffers : frees[b] = 0)

\* main has returned 1 after the third allocation failed, with the first
\* two buffers allocated and freed.
C29_Witness ==
    /\ pc = "tr_done" /\ ret = 1
    /\ heap["a"] # Null /\ heap["b"] # Null /\ heap["out"] = Null
    /\ frees["a"] = 1 /\ frees["b"] = 1
    /\ alloc_n > 0

=============================================================================
